---- MODULE Spec2Model ----
(***************************************************************************)
(* A model of the udoc codec: the varint size codec (utils.rs), the byte   *)
(* reader, the deferred-size encoder (encoder.rs), the zero-copy value     *)
(* decoder with its tag/list iterators (decoder.rs), and the validator and *)
(* JSON bridge that drive them (lib.rs).                                   *)
(*                                                                         *)
(* Representation.  A byte is a number in 0..255; a byte string is a       *)
(* sequence of bytes.  A u64 is its eight little-endian bytes (the model   *)
(* checker's integers are 32 bits wide, the program's sizes are 64), so    *)
(* shifts and leading_zeros are computed on the bytes.  A usize that       *)
(* indexes a buffer is a number; a decoded size too large for any buffer   *)
(* of the model is the number Huge.                                        *)
(***************************************************************************)
EXTENDS Integers, Sequences, FiniteSets, TLC

VARIABLES
    sz_pc,      \* size codec harness: "init", "encoded", "decoded", "raw"
    sz_value,   \* the u64 handed to encode_size
    sz_enc,     \* what encode_size returned
    sz_dec,     \* what decode_size returned, with the reader after the call
    sz_width,   \* the width of the bytes handed to decode_size
    j_pc,       \* JSON bridge harness: "tree", "encoded", "validated", "decoded"
    j_val,      \* the serde_json::Value
    j_depth,    \* its nesting depth
    j_cfg,      \* the encoder's <<size_max_bytes, compress_sizes>>
    j_out,      \* what build() returned for it
    j_valid,    \* what validate returned for the bytes
    j_cursor,   \* the reader's cursor after decode_value over the bytes
    j_back,     \* what decode_json returned for the bytes
    v_pc,       \* validator harness: "input", "validated"
    v_src,      \* where the buffer comes from: "bytes", "encoded", "wide"
    v_buf,      \* the buffer handed to validate
    v_res,      \* what validate returned for it
    v_op,       \* how the buffer was derived: "none", "extend", "prefix"
    v_base,     \* the buffer it was derived from
    v_base_res, \* what validate returned for that one
    e_pc,       \* encoder harness: "open", "built"
    e_enc,      \* the Encoder
    e_ops,      \* the number of operations applied to it
    e_begun,    \* the number of begin_size calls so far
    e_closed,   \* the running sizes of the scopes closed so far, in order
    e_out,      \* what the last build() or build_append() returned
    e_dest,     \* the dest vector handed to build_append, after the call
    t_pc,       \* twin encoder harness: "open", "built", "appended", "appended twice"
    t_c,        \* the Encoder with compress_sizes = true
    t_u,        \* the Encoder with compress_sizes = false, same width
    t_ops,      \* the number of operations applied to both
    t_slots,    \* the placeholders begin_size reserved: offset, scope size, end
    t_outc,     \* what build() or build_append() returned for t_c
    t_outu,     \* what build() or build_append() returned for t_u
    d_pc,       \* decoder harness: "input", "value", "symbol", "tags", "list"
    d_rdr,      \* the reader handed to the call: its buffer and cursor
    d_val,      \* what decode_value returned
    d_sym,      \* what decode_tag_symbol returned
    d_new,      \* what TagDecoder::new or ListDecoder::new returned
    i_pc,       \* iterator harness: "input", "iter", "refused", "checked", "panic"
    i_kind,     \* "tags": a TagDecoder, "list": a ListDecoder, "leaf": none
    i_buf,      \* the buffer: one value that carries the slice
    i_doc,      \* how the buffer was made
    i_new,      \* what TagDecoder::new or ListDecoder::new returned
    i_dec,      \* the iterator as the calls so far left it
    i_calls,    \* the next() calls so far, in order
    i_chk,      \* what check_error() returned
    i_valid,    \* what validate returned for the buffer
    r_pc,       \* reader harness: "ready", "called", "panic"
    r_checks,   \* the build checks integer overflow
    r_rdr,      \* the Reader
    r_old,      \* the Reader before the last call
    r_call,     \* the last call: the method and its argument
    r_res       \* what the last call returned

sz_vars == <<sz_pc, sz_value, sz_enc, sz_dec, sz_width>>
j_vars  == <<j_pc, j_val, j_depth, j_cfg, j_out, j_valid, j_cursor, j_back>>
v_vars  == <<v_pc, v_src, v_buf, v_res, v_op, v_base, v_base_res>>
e_vars  == <<e_pc, e_enc, e_ops, e_begun, e_closed, e_out, e_dest>>
t_vars  == <<t_pc, t_c, t_u, t_ops, t_slots, t_outc, t_outu>>
d_vars  == <<d_pc, d_rdr, d_val, d_sym, d_new>>
i_vars  == <<i_pc, i_kind, i_buf, i_doc, i_new, i_dec, i_calls, i_chk, i_valid>>
r_vars  == <<r_pc, r_checks, r_rdr, r_old, r_call, r_res>>

----------------------------------------------------------------------------
(* Bounds of the model.                                                    *)

\* sizes 0..MaxSmallSize are all tried by the size codec harness
MaxSmallSize == 70

\* the JSON trees nest at most MaxDepth containers deep
MaxDepth == 2

\* every byte string of at most MaxBufLen bytes over ValAlphabet is validated
MaxBufLen == 3

\* the encoder harness applies at most MaxOps operations before it builds
MaxOps == 5

----------------------------------------------------------------------------
(* Bytes and 64-bit words.                                                 *)

Min(a, b) == IF a <= b THEN a ELSE b

\* let v = ..; the value is computed once and named in what follows
Bind(v, F(_)) == F(v)

\* the first n elements of s (&s[..n])
Take(s, n) == SubSeq(s, 1, n)

\* s without its first n elements (&s[n..])
Drop(s, n) == SubSeq(s, n + 1, Len(s))

\* n zero bytes
Zeros(n) == Take(<<0, 0, 0, 0, 0, 0, 0, 0>>, n)

\* a usize that no buffer of the model reaches: has_n(Huge) is false
Huge == 2^29

\* the u64 with the little-endian bytes of n, 0 <= n < 2^31
ToU64(n) ==
    <<n % 256, (n \div 256) % 256, (n \div 65536) % 256, (n \div 16777216) % 256,
      0, 0, 0, 0>>

\* bytes (little-endian, any width up to 8) zero-extended to a u64:
\* u16::from_le_bytes(..) as u64 and its siblings
ZeroExtend(bs) == bs \o Zeros(8 - Len(bs))

\* u64 -> usize for indexing: exact below Huge, Huge from there on
AsUsize(v) ==
    IF v[5] = 0 /\ v[6] = 0 /\ v[7] = 0 /\ v[8] = 0 /\ v[4] < 32
    THEN v[1] + 256 * v[2] + 65536 * v[3] + 16777216 * v[4]
    ELSE Huge

\* the number of significant bits of a byte: 8 - leading zeros
ByteBits(b) ==
    IF b >= 128 THEN 8 ELSE IF b >= 64 THEN 7 ELSE IF b >= 32 THEN 6
    ELSE IF b >= 16 THEN 5 ELSE IF b >= 8 THEN 4 ELSE IF b >= 4 THEN 3
    ELSE IF b >= 2 THEN 2 ELSE b

\* 64 - value.leading_zeros()
BitLen(v) ==
    IF \A i \in 1..8 : v[i] = 0 THEN 0
    ELSE LET top == CHOOSE i \in 1..8 : v[i] # 0 /\ \A j \in (i+1)..8 : v[j] = 0
         IN  8 * (top - 1) + ByteBits(v[top])

\* value << 2 on a u64: the two top bits fall off
Shl2(v) ==
    << (v[1] * 4) % 256,
       ((v[2] * 4) % 256) + (v[1] \div 64), ((v[3] * 4) % 256) + (v[2] \div 64),
       ((v[4] * 4) % 256) + (v[3] \div 64), ((v[5] * 4) % 256) + (v[4] \div 64),
       ((v[6] * 4) % 256) + (v[5] \div 64), ((v[7] * 4) % 256) + (v[6] \div 64),
       ((v[8] * 4) % 256) + (v[7] \div 64) >>

\* value >> 2 on a u64 (logical)
Shr2(v) ==
    << (v[1] \div 4) + (v[2] % 4) * 64, (v[2] \div 4) + (v[3] % 4) * 64,
       (v[3] \div 4) + (v[4] % 4) * 64, (v[4] \div 4) + (v[5] % 4) * 64,
       (v[5] \div 4) + (v[6] % 4) * 64, (v[6] \div 4) + (v[7] % 4) * 64,
       (v[7] \div 4) + (v[8] % 4) * 64, v[8] \div 4 >>

\* value >> 1 on a u64 (logical)
Shr1(v) ==
    << (v[1] \div 2) + (v[2] % 2) * 128, (v[2] \div 2) + (v[3] % 2) * 128,
       (v[3] \div 2) + (v[4] % 2) * 128, (v[4] \div 2) + (v[5] % 2) * 128,
       (v[5] \div 2) + (v[6] % 2) * 128, (v[6] \div 2) + (v[7] % 2) * 128,
       (v[7] \div 2) + (v[8] % 2) * 128, v[8] \div 2 >>

\* a | b on two-bit numbers
Or2(a, b) ==
    (IF a % 2 = 1 \/ b % 2 = 1 THEN 1 ELSE 0)
    + (IF a \div 2 = 1 \/ b \div 2 = 1 THEN 2 ELSE 0)

\* value | class, class a two-bit number
OrLow(v, class) ==
    << (v[1] \div 4) * 4 + Or2(v[1] % 4, class) >> \o Tail(v)

----------------------------------------------------------------------------
(* The byte reader (slice_reader::Reader; reader.rs is its in-tree draft). *)

\* Reader::new
NewReader(buffer) == [buffer |-> buffer, cursor |-> 0]

\* Reader::remaining
Remaining(r) == Len(r.buffer) - r.cursor

\* Reader::rest
Rest(r) == Drop(r.buffer, r.cursor)

\* Reader::has_some
HasSome(r) == r.cursor < Len(r.buffer)

\* Reader::has_n
HasN(r, n) == r.cursor + n <= Len(r.buffer)

None == [some |-> FALSE]

\* Reader::peek(0): the byte at the cursor
Peek(r) ==
    IF r.cursor < Len(r.buffer)
    THEN [some |-> TRUE, val |-> r.buffer[r.cursor + 1]]
    ELSE None

\* Reader::peek_n
PeekN(r, n) ==
    IF HasN(r, n)
    THEN [some |-> TRUE, val |-> SubSeq(r.buffer, r.cursor + 1, r.cursor + n)]
    ELSE None

\* Reader::next_n: the slice and the advanced reader, or None and the reader
\* as it was
NextN(r, n) ==
    IF HasN(r, n)
    THEN [some |-> TRUE, val |-> SubSeq(r.buffer, r.cursor + 1, r.cursor + n),
          rdr |-> [r EXCEPT !.cursor = r.cursor + n]]
    ELSE [some |-> FALSE, rdr |-> r]

\* Reader::next_u8_le / next_u16_le / next_u32_le / next_u64_le, the result
\* widened to u64: n is 1, 2, 4 or 8
NextUintLe(r, n) ==
    Bind(NextN(r, n), LAMBDA bytes :
        IF bytes.some
        THEN [some |-> TRUE, val |-> ZeroExtend(bytes.val), rdr |-> bytes.rdr]
        ELSE [some |-> FALSE, rdr |-> r])

\* The calls of the Reader for every usize argument.  A usize of the top
\* half of the range, 2^64 - k, is written -k, so that cursor + n is the
\* wrapped sum whenever the true sum exceeds usize::MAX, which is when n < 0
\* and cursor + n >= 0.  checks: the build has overflow checks (debug), and
\* the addition panics; without them (release) it wraps.
AddOverflows(cursor, n) == n < 0 /\ cursor + n >= 0

Some(val, r)  == [out |-> "some",  val |-> val,  rdr |-> r]
Nothing(r)    == [out |-> "none",  val |-> <<>>, rdr |-> r]
Panics(r)     == [out |-> "panic", val |-> <<>>, rdr |-> r]

\* Reader::peek(offset): self.buffer.get(self.cursor + offset)
peek(r, offset, checks) ==
    IF AddOverflows(r.cursor, offset) /\ checks THEN Panics(r)
    ELSE IF offset < 0 /\ ~AddOverflows(r.cursor, offset) THEN Nothing(r)
    ELSE IF r.cursor + offset < Len(r.buffer)
    THEN Some(<<r.buffer[r.cursor + offset + 1]>>, r)
    ELSE Nothing(r)

\* Reader::next: peek(0) and the cursor moved by one
next(r, checks) ==
    Bind(peek(r, 0, checks), LAMBDA p :
        IF p.out = "some" THEN Some(p.val, [r EXCEPT !.cursor = r.cursor + 1])
        ELSE p)

\* Reader::has_n: self.cursor + n <= self.buffer.len()
has_n(r, n, checks) ==
    IF AddOverflows(r.cursor, n)
    THEN [panic |-> checks, has |-> r.cursor + n <= Len(r.buffer)]
    ELSE [panic |-> FALSE, has |-> n >= 0 /\ HasN(r, n)]

\* Reader::peek_n: the slice self.cursor .. self.cursor + n, which panics
\* when its end lies before its start
peek_n(r, n, checks) ==
    Bind(has_n(r, n, checks), LAMBDA h :
        IF h.panic THEN Panics(r)
        ELSE IF ~h.has THEN Nothing(r)
        ELSE IF r.cursor + n < r.cursor THEN Panics(r)
        ELSE Some(SubSeq(r.buffer, r.cursor + 1, r.cursor + n), r))

\* Reader::next_n: peek_n and the cursor moved by n
next_n(r, n, checks) ==
    Bind(peek_n(r, n, checks), LAMBDA p :
        IF p.out = "some" THEN Some(p.val, [r EXCEPT !.cursor = r.cursor + n])
        ELSE p)

\* Reader::next_bytes::<N> and the typed little-endian reads made of it
next_bytes(r, N, checks) == next_n(r, N, checks)

----------------------------------------------------------------------------
(* The varint size codec (utils.rs).                                       *)

\* encode_size with each class one bit too generous (bits <= 8 - 1, ...)
encode_size_loose(value) ==
    Bind(BitLen(value), LAMBDA bits :
    Bind(Shl2(value), LAMBDA shifted :
        IF      bits <=  8 - 1 THEN [panic |-> FALSE, bytes |-> OrLow(shifted, 0), length |-> 1]
        ELSE IF bits <= 16 - 1 THEN [panic |-> FALSE, bytes |-> OrLow(shifted, 1), length |-> 2]
        ELSE IF bits <= 32 - 1 THEN [panic |-> FALSE, bytes |-> OrLow(shifted, 2), length |-> 4]
        ELSE IF bits <= 64 - 2 THEN [panic |-> FALSE, bytes |-> OrLow(shifted, 3), length |-> 8]
        ELSE [panic |-> TRUE, bytes |-> Zeros(8), length |-> 0]))

\* encode_size: ([u8; 8], usize), or the panic of unreachable!()
encode_size(value) ==
    Bind(BitLen(value), LAMBDA bits :
    Bind(Shl2(value), LAMBDA shifted :
        IF      bits <=  8 - 2 THEN [panic |-> FALSE, bytes |-> OrLow(shifted, 0), length |-> 1]
        ELSE IF bits <= 16 - 2 THEN [panic |-> FALSE, bytes |-> OrLow(shifted, 1), length |-> 2]
        ELSE IF bits <= 32 - 2 THEN [panic |-> FALSE, bytes |-> OrLow(shifted, 2), length |-> 4]
        ELSE IF bits <= 64 - 2 THEN [panic |-> FALSE, bytes |-> OrLow(shifted, 3), length |-> 8]
        ELSE [panic |-> TRUE, bytes |-> Zeros(8), length |-> 0]))

\* the width decode_size reads for a first byte
ClassWidth(first) ==
    CASE first % 4 = 0 -> 1
      [] first % 4 = 1 -> 2
      [] first % 4 = 2 -> 4
      [] first % 4 = 3 -> 8

\* decode_size that shifts the integer right by one bit only
decode_size_shr1(reader) ==
    Bind(Peek(reader), LAMBDA first :
        IF ~first.some THEN [some |-> FALSE, rdr |-> reader]
        ELSE Bind(NextUintLe(reader, ClassWidth(first.val)), LAMBDA read :
                IF read.some
                THEN [some |-> TRUE, val |-> Shr1(read.val), rdr |-> read.rdr]
                ELSE [some |-> FALSE, rdr |-> reader]))

\* decode_size that refuses a value written wider than its bits need
decode_size_minimal(reader) ==
    Bind(Peek(reader), LAMBDA first :
        IF ~first.some THEN [some |-> FALSE, rdr |-> reader]
        ELSE Bind(NextUintLe(reader, ClassWidth(first.val)), LAMBDA read :
                IF read.some
                   /\ BitLen(Shr2(read.val)) > 8 * (ClassWidth(first.val) \div 2) - 2
                THEN [some |-> TRUE, val |-> Shr2(read.val), rdr |-> read.rdr]
                ELSE [some |-> FALSE, rdr |-> reader]))

\* decode_size: Option<u64> and the reader after the call
decode_size(reader) ==
    Bind(Peek(reader), LAMBDA first :
        IF ~first.some THEN [some |-> FALSE, rdr |-> reader]
        ELSE Bind(NextUintLe(reader, ClassWidth(first.val)), LAMBDA read :
                IF read.some
                THEN [some |-> TRUE, val |-> Shr2(read.val), rdr |-> read.rdr]
                ELSE [some |-> FALSE, rdr |-> reader]))

\* peek_decode_size: Option<(u64, usize)>, the reader untouched
peek_decode_size(reader) ==
    Bind(decode_size(reader), LAMBDA d :
        IF d.some
        THEN [some |-> TRUE, size |-> d.val, length |-> d.rdr.cursor - reader.cursor]
        ELSE None)

----------------------------------------------------------------------------
(* Wire types and header flags (wire_type.rs, re-exported by lib.rs).      *)

WT_Null      == 1
WT_BoolFalse == 2
WT_BoolTrue  == 3
WT_Nat8      == 4
WT_Nat16     == 5
WT_Nat32     == 6
WT_Nat64     == 7
WT_Int8      == 8
WT_Int16     == 9
WT_Int32     == 10
WT_Int64     == 11
WT_Float32   == 12
WT_Float64   == 13
WT_Decimal32 == 14
WT_Decimal64 == 15
WT_Nat       == 16
WT_Int       == 17
WT_Bytes     == 18
WT_String    == 19
WT_Symbol    == 20
WT_List      == 21

WIRE_TYPE_MIN  == 1
WIRE_TYPE_MAX  == 21
WIRE_TYPE_MASK == 32 - 1

WIRE_FLAG_KIND == 64
WIRE_FLAG_TAGS == 128

\* the wire type read from six bits of the header: header & (64 - 1)
HeaderType_six_bits(header) == header % 64

\* header & WIRE_TYPE_MASK
HeaderType(header) == header % (WIRE_TYPE_MASK + 1)

\* header & WIRE_FLAG_KIND != 0
HeaderHasKind(header) == (header \div WIRE_FLAG_KIND) % 2 = 1

\* header & WIRE_FLAG_TAGS != 0
HeaderHasTags(header) == (header \div WIRE_FLAG_TAGS) % 2 = 1

----------------------------------------------------------------------------
(* std::str::from_utf8, as a check of well-formed UTF-8.                   *)

IsCont(b) == b >= 128 /\ b <= 191

\* the length of the well-formed UTF-8 sequence that starts at s[i], 0 if none
Utf8SeqLen(s, i) ==
    LET n     == Len(s)
        b     == s[i]
        c(k)  == i + k <= n /\ IsCont(s[i + k])
        in(k, lo, hi) == i + k <= n /\ s[i + k] >= lo /\ s[i + k] <= hi
    IN  IF b <= 127 THEN 1
        ELSE IF b >= 194 /\ b <= 223 THEN (IF c(1) THEN 2 ELSE 0)
        ELSE IF b = 224 THEN (IF in(1, 160, 191) /\ c(2) THEN 3 ELSE 0)
        ELSE IF (b >= 225 /\ b <= 236) \/ b = 238 \/ b = 239
             THEN (IF c(1) /\ c(2) THEN 3 ELSE 0)
        ELSE IF b = 237 THEN (IF in(1, 128, 159) /\ c(2) THEN 3 ELSE 0)
        ELSE IF b = 240 THEN (IF in(1, 144, 191) /\ c(2) /\ c(3) THEN 4 ELSE 0)
        ELSE IF b >= 241 /\ b <= 243 THEN (IF c(1) /\ c(2) /\ c(3) THEN 4 ELSE 0)
        ELSE IF b = 244 THEN (IF in(1, 128, 143) /\ c(2) /\ c(3) THEN 4 ELSE 0)
        ELSE 0

RECURSIVE Utf8From(_, _)
Utf8From(s, i) ==
    IF i > Len(s) THEN TRUE
    ELSE IF Utf8SeqLen(s, i) = 0 THEN FALSE
    ELSE Utf8From(s, i + Utf8SeqLen(s, i))

\* std::str::from_utf8(bytes).is_ok()
IsUtf8(s) == Utf8From(s, 1)

----------------------------------------------------------------------------
(* The value decoder (decoder.rs).  A call returns st = "Ok" with a value, *)
(* st = "Err" with err, or st = "Panic" (unimplemented!()), and the reader *)
(* as the call left it: a failing call keeps what it consumed before it    *)
(* failed.                                                                 *)

NoPayload == <<"Null", <<>>>>
NoValue ==
    [ty |-> 0, has_kind |-> FALSE, has_tags |-> FALSE,
     kind |-> <<>>, tags |-> <<>>, payload |-> NoPayload]

Ok(v, r)    == [st |-> "Ok",    err |-> "",  val |-> v,  rdr |-> r]
Err(e, r)   == [st |-> "Err",   err |-> e,   val |-> <<>>, rdr |-> r]
Panicked(r) == [st |-> "Panic", err |-> "",  val |-> <<>>, rdr |-> r]

\* decoder::decode_size_as_usize: decode_size, None mapped to
\* InputExhausted, then u64_to_usize (which never fails where usize is 64
\* bits wide)
decode_size_as_usize(reader) ==
    Bind(decode_size(reader), LAMBDA d :
        IF d.some THEN Ok(AsUsize(d.val), d.rdr)
        ELSE Err("InputExhausted", d.rdr))

\* decode_tag_symbol
decode_tag_symbol(reader) ==
    Bind(decode_size(reader), LAMBDA d :
        IF ~d.some THEN Err("InputExhausted", d.rdr)
        ELSE IF d.val[1] % 2 # 0
        THEN Bind(NextN(d.rdr, AsUsize(Shr1(d.val))), LAMBDA n :
                IF n.some THEN Ok(n.val, n.rdr)
                ELSE Err("InputExhausted", n.rdr))
        ELSE Panicked(d.rdr))

\* decode_var_bytes that takes what is left when the size asks for more
decode_var_bytes_lenient(reader) ==
    Bind(decode_size_as_usize(reader), LAMBDA d :
        IF d.st # "Ok" THEN d
        ELSE Bind(NextN(d.rdr, Min(d.val, Remaining(d.rdr))), LAMBDA n :
                Ok(n.val, n.rdr)))

\* decode_var_bytes
decode_var_bytes(reader) ==
    Bind(decode_size_as_usize(reader), LAMBDA d :
        IF d.st # "Ok" THEN d
        ELSE Bind(NextN(d.rdr, d.val), LAMBDA n :
                IF n.some THEN Ok(n.val, n.rdr)
                ELSE Err("InputExhausted", n.rdr)))

\* decode_list that reads a count from an empty buffer as well
decode_list_always_reads(buffer) ==
    decode_size_as_usize(NewReader(buffer))

\* decode_list: (count, reader)
decode_list(buffer) ==
    Bind(NewReader(buffer), LAMBDA reader :
        IF HasSome(reader) THEN decode_size_as_usize(reader)
        ELSE Ok(0, reader))

\* the payload widths under the ordering Nat = 4, Nat8..Nat64 = 5..8,
\* Int = 9, Int8..Int64 = 10..13, Float32/64 = 14/15, Decimal32/64 = 16/17
FixedWidth_draft(ty) ==
    CASE ty \in {5, 10} -> 1
      [] ty \in {6, 11} -> 2
      [] ty \in {7, 12, 14, 16} -> 4
      [] ty \in {8, 13, 15, 17} -> 8
      [] OTHER -> 0

\* the payload width of a fixed-width wire type, 0 for the others
FixedWidth(ty) ==
    CASE ty \in {WT_Nat8, WT_Int8} -> 1
      [] ty \in {WT_Nat16, WT_Int16} -> 2
      [] ty \in {WT_Nat32, WT_Int32, WT_Float32, WT_Decimal32} -> 4
      [] ty \in {WT_Nat64, WT_Int64, WT_Float64, WT_Decimal64} -> 8
      [] OTHER -> 0

\* the Payload variant of a wire type
PayloadName(ty) ==
    CASE ty = WT_Null -> "Null"       [] ty = WT_BoolFalse -> "Bool"
      [] ty = WT_BoolTrue -> "Bool"   [] ty = WT_Nat8 -> "Nat8"
      [] ty = WT_Nat16 -> "Nat16"     [] ty = WT_Nat32 -> "Nat32"
      [] ty = WT_Nat64 -> "Nat64"     [] ty = WT_Int8 -> "Int8"
      [] ty = WT_Int16 -> "Int16"     [] ty = WT_Int32 -> "Int32"
      [] ty = WT_Int64 -> "Int64"     [] ty = WT_Float32 -> "Float32"
      [] ty = WT_Float64 -> "Float64" [] ty = WT_Decimal32 -> "Decimal32"
      [] ty = WT_Decimal64 -> "Decimal64" [] ty = WT_Nat -> "Nat"
      [] ty = WT_Int -> "Int"         [] ty = WT_Bytes -> "Bytes"
      [] ty = WT_String -> "String"   [] ty = WT_Symbol -> "Symbol"
      [] ty = WT_List -> "List"

\* decode_payload that takes a String's bytes as they are
decode_payload_unchecked(ty, reader) ==
    IF ty = WT_Null THEN Ok(NoPayload, reader)
    ELSE IF ty = WT_BoolFalse THEN Ok(<<"Bool", FALSE>>, reader)
    ELSE IF ty = WT_BoolTrue THEN Ok(<<"Bool", TRUE>>, reader)
    ELSE IF FixedWidth(ty) > 0
    THEN Bind(NextN(reader, FixedWidth(ty)), LAMBDA n :
            IF n.some THEN Ok(<<PayloadName(ty), n.val>>, n.rdr)
            ELSE Err("InputExhausted", n.rdr))
    ELSE Bind(decode_var_bytes(reader), LAMBDA b :
            IF b.st # "Ok" THEN b
            ELSE Ok(<<PayloadName(ty), b.val>>, b.rdr))

\* decode_payload that looks into a List: the payload must start with a
\* count that ListDecoder::new accepts
decode_payload_parses_list(ty, reader) ==
    IF ty = WT_Null THEN Ok(NoPayload, reader)
    ELSE IF ty = WT_BoolFalse THEN Ok(<<"Bool", FALSE>>, reader)
    ELSE IF ty = WT_BoolTrue THEN Ok(<<"Bool", TRUE>>, reader)
    ELSE IF FixedWidth(ty) > 0
    THEN Bind(NextN(reader, FixedWidth(ty)), LAMBDA n :
            IF n.some THEN Ok(<<PayloadName(ty), n.val>>, n.rdr)
            ELSE Err("InputExhausted", n.rdr))
    ELSE Bind(decode_var_bytes(reader), LAMBDA b :
            IF b.st # "Ok" THEN b
            ELSE IF ty = WT_String /\ ~IsUtf8(b.val)
            THEN Err("StringInvalidUtf8", b.rdr)
            ELSE IF ty = WT_List /\ decode_list(b.val).st # "Ok"
            THEN Err(decode_list(b.val).err, b.rdr)
            ELSE Ok(<<PayloadName(ty), b.val>>, b.rdr))

\* decode_payload: a payload is <<variant, data>>; the data of a fixed-width
\* variant are its little-endian bytes, of Bool the boolean, of the others
\* the slice
decode_payload(ty, reader) ==
    IF ty = WT_Null THEN Ok(NoPayload, reader)
    ELSE IF ty = WT_BoolFalse THEN Ok(<<"Bool", FALSE>>, reader)
    ELSE IF ty = WT_BoolTrue THEN Ok(<<"Bool", TRUE>>, reader)
    ELSE IF FixedWidth(ty) > 0
    THEN Bind(NextN(reader, FixedWidth(ty)), LAMBDA n :
            IF n.some THEN Ok(<<PayloadName(ty), n.val>>, n.rdr)
            ELSE Err("InputExhausted", n.rdr))
    ELSE Bind(decode_var_bytes(reader), LAMBDA b :
            IF b.st # "Ok" THEN b
            ELSE IF ty = WT_String /\ ~IsUtf8(b.val)
            THEN Err("StringInvalidUtf8", b.rdr)
            ELSE Ok(<<PayloadName(ty), b.val>>, b.rdr))

\* decode_value that reads the payload before the tags
decode_value_tags_last(reader) ==
    Bind(NextN(reader, 1), LAMBDA h :
        IF ~h.some THEN Err("InputExhausted", h.rdr)
        ELSE
        Bind(h.val[1], LAMBDA header :
            IF ~(HeaderType(header) >= WIRE_TYPE_MIN /\ HeaderType(header) <= WIRE_TYPE_MAX)
            THEN Err("InvalidWireType", h.rdr)
            ELSE IF HeaderHasKind(header) THEN Panicked(h.rdr)
            ELSE
            Bind(decode_payload(HeaderType(header), h.rdr), LAMBDA p :
                IF p.st # "Ok" THEN p
                ELSE Bind(IF HeaderHasTags(header) THEN decode_var_bytes(p.rdr)
                          ELSE Ok(<<>>, p.rdr), LAMBDA t :
                        IF t.st # "Ok" THEN t
                        ELSE Ok([ty |-> HeaderType(header),
                                 has_kind |-> HeaderHasKind(header),
                                 has_tags |-> HeaderHasTags(header),
                                 kind |-> <<>>,
                                 tags |-> t.val, payload |-> p.val], t.rdr)))))

\* decode_value
decode_value(reader) ==
    Bind(NextN(reader, 1), LAMBDA h :
        IF ~h.some THEN Err("InputExhausted", h.rdr)
        ELSE
        Bind(h.val[1], LAMBDA header :
            IF ~(HeaderType(header) >= WIRE_TYPE_MIN /\ HeaderType(header) <= WIRE_TYPE_MAX)
            THEN Err("InvalidWireType", h.rdr)
            ELSE IF HeaderHasKind(header) THEN Panicked(h.rdr)
            ELSE
            Bind(IF HeaderHasTags(header) THEN decode_var_bytes(h.rdr)
                 ELSE Ok(<<>>, h.rdr), LAMBDA t :
                IF t.st # "Ok" THEN t
                ELSE Bind(decode_payload(HeaderType(header), t.rdr), LAMBDA p :
                        IF p.st # "Ok" THEN p
                        ELSE Ok([ty |-> HeaderType(header),
                                 has_kind |-> HeaderHasKind(header),
                                 has_tags |-> HeaderHasTags(header),
                                 kind |-> <<>>,
                                 tags |-> t.val, payload |-> p.val], p.rdr)))))

----------------------------------------------------------------------------
(* TagDecoder and ListDecoder (decoder.rs): {remaining, reader, error};    *)
(* error is "" for None.                                                   *)

NoDecoder == [remaining |-> 0, reader |-> NewReader(<<>>), error |-> ""]

\* TagDecoder::new that asks for one byte per pair:
\* reader.remaining() < remaining
TagDecoderNew_single(tags) ==
    Bind(decode_list(tags), LAMBDA l :
        IF l.st # "Ok" THEN [st |-> l.st, err |-> l.err, dec |-> NoDecoder]
        ELSE IF Remaining(l.rdr) < l.val
        THEN [st |-> "Err", err |-> "TagsInvalidLength", dec |-> NoDecoder]
        ELSE [st |-> "Ok", err |-> "",
              dec |-> [remaining |-> l.val, reader |-> l.rdr, error |-> ""]])

\* TagDecoder::new
TagDecoderNew(tags) ==
    Bind(decode_list(tags), LAMBDA l :
        IF l.st # "Ok" THEN [st |-> l.st, err |-> l.err, dec |-> NoDecoder]
        ELSE IF Remaining(l.rdr) < 2 * l.val
        THEN [st |-> "Err", err |-> "TagsInvalidLength", dec |-> NoDecoder]
        ELSE [st |-> "Ok", err |-> "",
              dec |-> [remaining |-> l.val, reader |-> l.rdr, error |-> ""]])

\* ListDecoder::new
ListDecoderNew(payload) ==
    Bind(decode_list(payload), LAMBDA l :
        IF l.st # "Ok" THEN [st |-> l.st, err |-> l.err, dec |-> NoDecoder]
        ELSE IF Remaining(l.rdr) < l.val
        THEN [st |-> "Err", err |-> "ListInvalidLength", dec |-> NoDecoder]
        ELSE [st |-> "Ok", err |-> "",
              dec |-> [remaining |-> l.val, reader |-> l.rdr, error |-> ""]])

NoItem(dec)      == [some |-> FALSE, panic |-> FALSE, sym |-> <<>>, val |-> NoValue, dec |-> dec]
PanicItem(dec)   == [some |-> FALSE, panic |-> TRUE,  sym |-> <<>>, val |-> NoValue, dec |-> dec]
Item(s, v, dec)  == [some |-> TRUE,  panic |-> FALSE, sym |-> s,    val |-> v,       dec |-> dec]

\* <TagDecoder as Iterator>::next: the item, if any, and the decoder after
\* the call
TagDecoderNext(dec) ==
    IF dec.remaining > 0
    THEN Bind(decode_tag_symbol(dec.reader), LAMBDA s :
            IF s.st = "Panic" THEN PanicItem([dec EXCEPT !.reader = s.rdr])
            ELSE IF s.st = "Err"
            THEN NoItem([dec EXCEPT !.reader = s.rdr, !.error = s.err])
            ELSE Bind(decode_value(s.rdr), LAMBDA v :
                    IF v.st = "Panic" THEN PanicItem([dec EXCEPT !.reader = v.rdr])
                    ELSE IF v.st = "Err"
                    THEN NoItem([dec EXCEPT !.reader = v.rdr, !.error = v.err])
                    ELSE Item(s.val, v.val,
                              [dec EXCEPT !.reader = v.rdr,
                                          !.remaining = dec.remaining - 1])))
    ELSE NoItem(dec)

\* <ListDecoder as Iterator>::next that counts a failed element
ListDecoderNext_counts_failure(dec) ==
    IF dec.remaining > 0
    THEN Bind(decode_value(dec.reader), LAMBDA v :
            IF v.st = "Panic" THEN PanicItem([dec EXCEPT !.reader = v.rdr])
            ELSE IF v.st = "Err"
            THEN NoItem([dec EXCEPT !.reader = v.rdr, !.error = v.err,
                                    !.remaining = dec.remaining - 1])
            ELSE Item(<<>>, v.val,
                      [dec EXCEPT !.reader = v.rdr,
                                  !.remaining = dec.remaining - 1]))
    ELSE NoItem(dec)

\* <ListDecoder as Iterator>::next that yields without counting down
ListDecoderNext_keeps_count(dec) ==
    IF dec.remaining > 0
    THEN Bind(decode_value(dec.reader), LAMBDA v :
            IF v.st = "Panic" THEN PanicItem([dec EXCEPT !.reader = v.rdr])
            ELSE IF v.st = "Err"
            THEN NoItem([dec EXCEPT !.reader = v.rdr, !.error = v.err])
            ELSE Item(<<>>, v.val, [dec EXCEPT !.reader = v.rdr]))
    ELSE NoItem(dec)

\* <ListDecoder as Iterator>::next
ListDecoderNext(dec) ==
    IF dec.remaining > 0
    THEN Bind(decode_value(dec.reader), LAMBDA v :
            IF v.st = "Panic" THEN PanicItem([dec EXCEPT !.reader = v.rdr])
            ELSE IF v.st = "Err"
            THEN NoItem([dec EXCEPT !.reader = v.rdr, !.error = v.err])
            ELSE Item(<<>>, v.val,
                      [dec EXCEPT !.reader = v.rdr,
                                  !.remaining = dec.remaining - 1]))
    ELSE NoItem(dec)

\* TagDecoder::check_error that does not look at the reader
TagDecoderCheckError_no_trailing(dec) ==
    IF dec.error # "" THEN dec.error
    ELSE IF dec.remaining > 0 THEN "TagsInputExhausted"
    ELSE "Ok"

\* TagDecoder::check_error: "Ok" or the error
TagDecoderCheckError(dec) ==
    IF dec.error # "" THEN dec.error
    ELSE IF dec.remaining > 0 THEN "TagsInputExhausted"
    ELSE IF HasSome(dec.reader) THEN "TagsTrailingData"
    ELSE "Ok"

\* ListDecoder::check_error that tests the count before the stored error
ListDecoderCheckError_count_first(dec) ==
    IF dec.remaining > 0 THEN "ListInputExhausted"
    ELSE IF dec.error # "" THEN dec.error
    ELSE IF HasSome(dec.reader) THEN "ListTrailingData"
    ELSE "Ok"

\* ListDecoder::check_error
ListDecoderCheckError(dec) ==
    IF dec.error # "" THEN dec.error
    ELSE IF dec.remaining > 0 THEN "ListInputExhausted"
    ELSE IF HasSome(dec.reader) THEN "ListTrailingData"
    ELSE "Ok"

----------------------------------------------------------------------------
(* The validator (lib.rs).  A result is "Ok", an error name or "Panic".    *)

RECURSIVE _validate(_), ValidateTags(_), ValidateList(_)

\* for (_symbol, value) in &mut tags { _validate(&value)?; } tags.check_error()?
ValidateTags(dec) ==
    Bind(TagDecoderNext(dec), LAMBDA n :
        IF n.panic THEN "Panic"
        ELSE IF n.some
        THEN Bind(_validate(n.val), LAMBDA r :
                IF r # "Ok" THEN r ELSE ValidateTags(n.dec))
        ELSE TagDecoderCheckError(n.dec))

\* for value in &mut payload { _validate(&value)?; } payload.check_error()?
ValidateList(dec) ==
    Bind(ListDecoderNext(dec), LAMBDA n :
        IF n.panic THEN "Panic"
        ELSE IF n.some
        THEN Bind(_validate(n.val), LAMBDA r :
                IF r # "Ok" THEN r ELSE ValidateList(n.dec))
        ELSE ListDecoderCheckError(n.dec))

_validate(value) ==
    Bind(IF value.has_tags
         THEN Bind(TagDecoderNew(value.tags), LAMBDA tags :
                 IF tags.st # "Ok" THEN tags.err ELSE ValidateTags(tags.dec))
         ELSE "Ok", LAMBDA t :
        IF t # "Ok" THEN t
        ELSE IF value.payload[1] = "List"
        THEN Bind(ListDecoderNew(value.payload[2]), LAMBDA payload :
                IF payload.st # "Ok" THEN payload.err
                ELSE ValidateList(payload.dec))
        ELSE "Ok")

\* validate without the check of the outer reader
validate_no_trailing(buffer) ==
    Bind(decode_value(NewReader(buffer)), LAMBDA v :
        IF v.st = "Panic" THEN "Panic"
        ELSE IF v.st = "Err" THEN v.err
        ELSE _validate(v.val))

\* validate
validate(buffer) ==
    Bind(decode_value(NewReader(buffer)), LAMBDA v :
        IF v.st = "Panic" THEN "Panic"
        ELSE IF v.st = "Err" THEN v.err
        ELSE Bind(_validate(v.val), LAMBDA r :
                IF r # "Ok" THEN r
                ELSE IF HasSome(v.rdr) THEN "TrailingData"
                ELSE "Ok"))

----------------------------------------------------------------------------
(* The encoder (encoder.rs).  An encoder is the record of its fields, and  *)
(* panic: whether an assertion, an unwrap or unreachable!() has aborted    *)
(* the program; an aborted encoder does nothing more.                      *)

\* Encoder::new
NewEncoder(size_max_bytes, compress_sizes) ==
    [buffer |-> <<>>,
     sizers |-> << [offset |-> 0, size |-> 0] >>,
     size_offsets |-> <<>>,
     last_size_offset |-> 0,
     size_max_bytes |-> size_max_bytes,
     compress_sizes |-> compress_sizes,
     size_overflow |-> FALSE,
     panic |-> size_max_bytes \notin {1, 2, 4, 8}]

\* Encoder::default
DefaultEncoder == NewEncoder(8, TRUE)

Abort(e) == [e EXCEPT !.panic = TRUE]

\* Encoder::commit_size
commit_size(e, size) ==
    [e EXCEPT !.sizers[Len(e.sizers)].size = @ + size]

\* Encoder::append
append(e, bytes) ==
    IF e.panic THEN e
    ELSE commit_size([e EXCEPT !.buffer = @ \o bytes], Len(bytes))

\* Encoder::append_byte
append_byte(e, byte) ==
    IF e.panic THEN e
    ELSE commit_size([e EXCEPT !.buffer = Append(@, byte)], 1)

\* Encoder::append_size, value a u64
append_size(e, value) ==
    IF e.panic THEN e
    ELSE Bind(encode_size(value), LAMBDA s :
            IF s.panic THEN Abort(e)
            ELSE append(e, Take(s.bytes, s.length)))

\* Encoder::append_symbol that writes len << 1 | 1 as one raw byte
append_symbol_raw_prefix(e, symbol) ==
    append(append_byte(e, Len(symbol) * 2 + 1), symbol)

\* Encoder::append_symbol
append_symbol(e, symbol) ==
    IF e.panic THEN e
    ELSE Bind(encode_size(ToU64(Len(symbol) * 2 + 1)), LAMBDA s :
            IF s.panic THEN Abort(e)
            ELSE append(append(e, Take(s.bytes, s.length)), symbol))

\* Encoder::begin_size that reserves the placeholder and opens no scope:
\* the sizer is not pushed
begin_size_unscoped(e) ==
    IF e.panic THEN e
    ELSE
    Bind(Len(e.buffer), LAMBDA offset :
    Bind([e EXCEPT !.buffer = @ \o Zeros(e.size_max_bytes)],
         LAMBDA pushed :
        IF e.compress_sizes
        THEN Bind(encode_size(ToU64(offset - e.last_size_offset)), LAMBDA d :
                IF d.panic THEN Abort(pushed)
                ELSE [pushed EXCEPT !.size_offsets = @ \o Take(d.bytes, d.length),
                                    !.last_size_offset = offset])
        ELSE pushed))

\* Encoder::begin_size that logs the offset itself, not its distance from
\* the placeholder before: encode_size(offset as u64)
begin_size_logs_offset(e) ==
    IF e.panic THEN e
    ELSE
    Bind(Len(e.buffer), LAMBDA offset :
    Bind([e EXCEPT !.buffer = @ \o Zeros(e.size_max_bytes),
                   !.sizers = Append(@, [offset |-> offset, size |-> 0])],
         LAMBDA pushed :
        IF e.compress_sizes
        THEN Bind(encode_size(ToU64(offset)), LAMBDA d :
                IF d.panic THEN Abort(pushed)
                ELSE [pushed EXCEPT !.size_offsets = @ \o Take(d.bytes, d.length),
                                    !.last_size_offset = offset])
        ELSE pushed))

\* Encoder::begin_size
begin_size(e) ==
    IF e.panic THEN e
    ELSE
    Bind(Len(e.buffer), LAMBDA offset :
    Bind([e EXCEPT !.buffer = @ \o Zeros(e.size_max_bytes),
                   !.sizers = Append(@, [offset |-> offset, size |-> 0])],
         LAMBDA pushed :
        IF e.compress_sizes
        THEN Bind(encode_size(ToU64(offset - e.last_size_offset)), LAMBDA d :
                IF d.panic THEN Abort(pushed)
                ELSE [pushed EXCEPT !.size_offsets = @ \o Take(d.bytes, d.length),
                                    !.last_size_offset = offset])
        ELSE pushed))

\* end_size that leaves the placeholder as begin_size wrote it
end_size_unpatched(e) ==
    IF e.panic THEN e
    ELSE IF ~(Len(e.sizers) > 1) THEN Abort(e)
    ELSE
    Bind(e.sizers[Len(e.sizers)], LAMBDA sizer :
    Bind([e EXCEPT !.sizers = Take(@, Len(@) - 1)], LAMBDA popped :
    Bind(encode_size(ToU64(sizer.size)), LAMBDA s :
        IF s.panic THEN Abort(popped)
        ELSE
        Bind([popped EXCEPT !.size_overflow =
                  @ \/ (s.length > e.size_max_bytes)], LAMBDA latched :
            IF e.compress_sizes
            THEN commit_size(latched, s.length + sizer.size)
            ELSE commit_size(latched, e.size_max_bytes + sizer.size)))))

\* end_size that assigns size_overflow from the scope it closes:
\* self.size_overflow = length > self.size_max_bytes
end_size_unlatched(e) ==
    IF e.panic THEN e
    ELSE IF ~(Len(e.sizers) > 1) THEN Abort(e)
    ELSE
    Bind(e.sizers[Len(e.sizers)], LAMBDA sizer :
    Bind([e EXCEPT !.sizers = Take(@, Len(@) - 1)], LAMBDA popped :
    Bind(encode_size(ToU64(sizer.size)), LAMBDA s :
        IF s.panic THEN Abort(popped)
        ELSE
        Bind([popped EXCEPT
                  !.size_overflow = s.length > e.size_max_bytes,
                  !.buffer = Take(@, sizer.offset)
                             \o Take(s.bytes, e.size_max_bytes)
                             \o Drop(@, sizer.offset + e.size_max_bytes)],
             LAMBDA patched :
            IF e.compress_sizes
            THEN commit_size(patched, s.length + sizer.size)
            ELSE commit_size(patched, e.size_max_bytes + sizer.size)))))

\* end_size that adds the placeholder's width to the enclosing scope in both
\* modes: self.commit_size(self.size_max_bytes + sizer.size)
end_size_commit_max(e) ==
    IF e.panic THEN e
    ELSE IF ~(Len(e.sizers) > 1) THEN Abort(e)
    ELSE
    Bind(e.sizers[Len(e.sizers)], LAMBDA sizer :
    Bind([e EXCEPT !.sizers = Take(@, Len(@) - 1)], LAMBDA popped :
    Bind(encode_size(ToU64(sizer.size)), LAMBDA s :
        IF s.panic THEN Abort(popped)
        ELSE
        Bind([popped EXCEPT
                  !.size_overflow = @ \/ (s.length > e.size_max_bytes),
                  !.buffer = Take(@, sizer.offset)
                             \o Take(s.bytes, e.size_max_bytes)
                             \o Drop(@, sizer.offset + e.size_max_bytes)],
             LAMBDA patched :
            commit_size(patched, e.size_max_bytes + sizer.size)))))

\* Encoder::end_size that copies the length bytes of the varint, however
\* wide the placeholder is
end_size_patch_length(e) ==
    IF e.panic THEN e
    ELSE IF ~(Len(e.sizers) > 1) THEN Abort(e)
    ELSE
    Bind(e.sizers[Len(e.sizers)], LAMBDA sizer :
    Bind([e EXCEPT !.sizers = Take(@, Len(@) - 1)], LAMBDA popped :
    Bind(encode_size(ToU64(sizer.size)), LAMBDA s :
        IF s.panic THEN Abort(popped)
        ELSE
        Bind([popped EXCEPT
                  !.size_overflow = @ \/ (s.length > e.size_max_bytes),
                  !.buffer = Take(@, sizer.offset)
                             \o Take(s.bytes, s.length)
                             \o Drop(@, sizer.offset + s.length)],
             LAMBDA patched :
            IF e.compress_sizes
            THEN commit_size(patched, s.length + sizer.size)
            ELSE commit_size(patched, e.size_max_bytes + sizer.size)))))

\* Encoder::end_size that credits the enclosing scope with the content only
end_size_commit_content(e) ==
    IF e.panic THEN e
    ELSE IF ~(Len(e.sizers) > 1) THEN Abort(e)
    ELSE
    Bind(e.sizers[Len(e.sizers)], LAMBDA sizer :
    Bind([e EXCEPT !.sizers = Take(@, Len(@) - 1)], LAMBDA popped :
    Bind(encode_size(ToU64(sizer.size)), LAMBDA s :
        IF s.panic THEN Abort(popped)
        ELSE
        Bind([popped EXCEPT
                  !.size_overflow = @ \/ (s.length > e.size_max_bytes),
                  !.buffer = Take(@, sizer.offset)
                             \o Take(s.bytes, e.size_max_bytes)
                             \o Drop(@, sizer.offset + e.size_max_bytes)],
             LAMBDA patched : commit_size(patched, sizer.size)))))

\* Encoder::end_size that raises size_overflow as soon as the varint fills
\* the placeholder: if length >= self.size_max_bytes
end_size_overflow_when_full(e) ==
    IF e.panic THEN e
    ELSE IF ~(Len(e.sizers) > 1) THEN Abort(e)
    ELSE
    Bind(e.sizers[Len(e.sizers)], LAMBDA sizer :
    Bind([e EXCEPT !.sizers = Take(@, Len(@) - 1)], LAMBDA popped :
    Bind(encode_size(ToU64(sizer.size)), LAMBDA s :
        IF s.panic THEN Abort(popped)
        ELSE
        Bind([popped EXCEPT
                  !.size_overflow = @ \/ (s.length >= e.size_max_bytes),
                  !.buffer = Take(@, sizer.offset)
                             \o Take(s.bytes, e.size_max_bytes)
                             \o Drop(@, sizer.offset + e.size_max_bytes)],
             LAMBDA patched :
            IF e.compress_sizes
            THEN commit_size(patched, s.length + sizer.size)
            ELSE commit_size(patched, e.size_max_bytes + sizer.size)))))

\* Encoder::end_size
end_size(e) ==
    IF e.panic THEN e
    ELSE IF ~(Len(e.sizers) > 1) THEN Abort(e)
    ELSE
    Bind(e.sizers[Len(e.sizers)], LAMBDA sizer :
    Bind([e EXCEPT !.sizers = Take(@, Len(@) - 1)], LAMBDA popped :
    Bind(encode_size(ToU64(sizer.size)), LAMBDA s :
        IF s.panic THEN Abort(popped)
        ELSE
        Bind([popped EXCEPT
                  !.size_overflow = @ \/ (s.length > e.size_max_bytes),
                  !.buffer = Take(@, sizer.offset)
                             \o Take(s.bytes, e.size_max_bytes)
                             \o Drop(@, sizer.offset + e.size_max_bytes)],
             LAMBDA patched :
            IF e.compress_sizes
            THEN commit_size(patched, s.length + sizer.size)
            ELSE commit_size(patched, e.size_max_bytes + sizer.size)))))

\* Encoder::size: the root's running size; the assertion is checked by the
\* callers below
size(e) == e.sizers[1].size

\* the loop of compress that stops at the last placeholder: the bytes after
\* it are not copied
RECURSIVE CompressLoop_drop_tail(_, _, _, _, _)
CompressLoop_drop_tail(e, buffer, offsets, first, out) ==
    IF ~HasSome(buffer) THEN [panic |-> FALSE, bytes |-> out]
    ELSE IF ~HasSome(offsets) THEN [panic |-> FALSE, bytes |-> out]
    ELSE
    Bind(decode_size(offsets), LAMBDA d :
        IF ~d.some THEN [panic |-> TRUE, bytes |-> out]
        ELSE IF ~first /\ AsUsize(d.val) < e.size_max_bytes
        THEN [panic |-> TRUE, bytes |-> out]
        ELSE
        Bind(NextN(buffer, IF first THEN AsUsize(d.val)
                           ELSE AsUsize(d.val) - e.size_max_bytes), LAMBDA gap :
            IF ~gap.some THEN [panic |-> TRUE, bytes |-> out]
            ELSE
            Bind(peek_decode_size(gap.rdr), LAMBDA p :
                IF ~p.some THEN [panic |-> TRUE, bytes |-> out]
                ELSE
                Bind(PeekN(gap.rdr, p.length), LAMBDA head :
                Bind(NextN(gap.rdr, e.size_max_bytes), LAMBDA skip :
                    IF ~head.some \/ ~skip.some THEN [panic |-> TRUE, bytes |-> out]
                    ELSE CompressLoop_drop_tail(e, skip.rdr, d.rdr, FALSE,
                                                out \o gap.val \o head.val))))))

\* the loop of Encoder::compress: the bytes written to dest, or a panic
RECURSIVE CompressLoop(_, _, _, _, _)
CompressLoop(e, buffer, offsets, first, out) ==
    IF ~HasSome(buffer) THEN [panic |-> FALSE, bytes |-> out]
    ELSE IF ~HasSome(offsets) THEN [panic |-> FALSE, bytes |-> out \o Rest(buffer)]
    ELSE
    Bind(decode_size(offsets), LAMBDA d :
        IF ~d.some THEN [panic |-> TRUE, bytes |-> out]
        ELSE IF ~first /\ AsUsize(d.val) < e.size_max_bytes
        THEN [panic |-> TRUE, bytes |-> out]
        ELSE
        Bind(NextN(buffer, IF first THEN AsUsize(d.val)
                           ELSE AsUsize(d.val) - e.size_max_bytes), LAMBDA gap :
            IF ~gap.some THEN [panic |-> TRUE, bytes |-> out]
            ELSE
            Bind(peek_decode_size(gap.rdr), LAMBDA p :
                IF ~p.some THEN [panic |-> TRUE, bytes |-> out]
                ELSE
                Bind(PeekN(gap.rdr, p.length), LAMBDA head :
                Bind(NextN(gap.rdr, e.size_max_bytes), LAMBDA skip :
                    IF ~head.some \/ ~skip.some THEN [panic |-> TRUE, bytes |-> out]
                    ELSE CompressLoop(e, skip.rdr, d.rdr, FALSE,
                                      out \o gap.val \o head.val))))))

\* compress that copies the buffer as it is and the offsets log after it,
\* and asserts nothing
compress_with_log(e) ==
    IF ~(Len(e.sizers) = 1) THEN [panic |-> TRUE, bytes |-> <<>>]
    ELSE [panic |-> FALSE, bytes |-> e.buffer \o e.size_offsets]

\* Encoder::compress: what it appends to dest, or a panic (size()'s
\* assertion, an unwrap, the final assert_eq)
compress(e) ==
    IF ~(Len(e.sizers) = 1) THEN [panic |-> TRUE, bytes |-> <<>>]
    ELSE Bind(CompressLoop(e, NewReader(e.buffer), NewReader(e.size_offsets),
                           TRUE, <<>>), LAMBDA c :
            IF c.panic THEN c
            ELSE IF Len(c.bytes) # size(e) THEN [panic |-> TRUE, bytes |-> c.bytes]
            ELSE c)

\* Encoder::build: st is "Ok" with the bytes, "SizeOverflow" or "Panic"
build(e) ==
    IF e.panic \/ ~(Len(e.sizers) = 1) THEN [st |-> "Panic", bytes |-> <<>>]
    ELSE IF e.size_overflow THEN [st |-> "SizeOverflow", bytes |-> <<>>]
    ELSE IF e.compress_sizes
    THEN Bind(compress(e), LAMBDA c :
            IF c.panic THEN [st |-> "Panic", bytes |-> <<>>]
            ELSE [st |-> "Ok", bytes |-> c.bytes])
    ELSE [st |-> "Ok", bytes |-> e.buffer]

\* Encoder::build_append that empties dest before it writes: dest.clear()
build_append_overwrites(e, dest) ==
    IF e.panic \/ ~(Len(e.sizers) = 1) THEN [st |-> "Panic", bytes |-> dest]
    ELSE IF e.size_overflow THEN [st |-> "SizeOverflow", bytes |-> dest]
    ELSE IF e.compress_sizes
    THEN Bind(compress(e), LAMBDA c :
            IF c.panic THEN [st |-> "Panic", bytes |-> c.bytes]
            ELSE [st |-> "Ok", bytes |-> c.bytes])
    ELSE [st |-> "Ok", bytes |-> e.buffer]

\* Encoder::build_append: st and dest after the call
build_append(e, dest) ==
    IF e.panic \/ ~(Len(e.sizers) = 1) THEN [st |-> "Panic", bytes |-> dest]
    ELSE IF e.size_overflow THEN [st |-> "SizeOverflow", bytes |-> dest]
    ELSE IF e.compress_sizes
    THEN Bind(compress(e), LAMBDA c :
            IF c.panic THEN [st |-> "Panic", bytes |-> dest \o c.bytes]
            ELSE [st |-> "Ok", bytes |-> dest \o c.bytes])
    ELSE [st |-> "Ok", bytes |-> dest \o e.buffer]

----------------------------------------------------------------------------
(* The JSON bridge (lib.rs).  A serde_json::Value is <<variant, data>>:    *)
(* Null, Bool b, Number n, String bytes (UTF-8), Array <<values>>, Object  *)
(* <<key, value>> pairs in the order of their keys.  A Number is           *)
(* <<"PosInt", n>>, <<"NegInt", n>> (n < 0) or <<"Float", h>>; an f64 is   *)
(* the count h of halves it equals, so 3 is 1.5 and -4 is -2.0.            *)

JNull       == <<"Null", <<>>>>
JBool(b)    == <<"Bool", b>>
JNumber(n)  == <<"Number", n>>
JString(s)  == <<"String", s>>
JArray(a)   == <<"Array", a>>
JObject(m)  == <<"Object", m>>

PosInt(n)   == <<"PosInt", n>>
NegInt(n)   == <<"NegInt", n>>
Float(h)    == <<"Float", h>>

\* the f64 values of the model, in halves
F64Domain == -6..6

\* f64::to_le_bytes: IEEE 754 binary64, little-endian
F64ToLeBytes(h) ==
    LET a    == IF h < 0 THEN -h ELSE h
        sign == IF h < 0 THEN 128 ELSE 0
        hi   == CASE a = 0 -> <<0, 0>>       \* 0.0  0000
                  [] a = 1 -> <<224, 63>>    \* 0.5  3FE0
                  [] a = 2 -> <<240, 63>>    \* 1.0  3FF0
                  [] a = 3 -> <<248, 63>>    \* 1.5  3FF8
                  [] a = 4 -> <<0, 64>>      \* 2.0  4000
                  [] a = 5 -> <<4, 64>>      \* 2.5  4004
                  [] a = 6 -> <<8, 64>>      \* 3.0  4008
    IN  <<0, 0, 0, 0, 0, 0, hi[1], hi[2] + (IF a = 0 THEN 0 ELSE sign)>>

\* f64::from_le_bytes, on the bytes of the values of the model
F64FromLeBytes(bytes) ==
    CHOOSE h \in F64Domain : F64ToLeBytes(h) = bytes

\* Number::as_f64
as_f64(n) == IF n[1] = "Float" THEN n[2] ELSE 2 * n[2]

\* value as u64: towards zero, negative values to 0
F64AsU64(h) == IF h < 0 THEN 0 ELSE h \div 2

\* value as i64: towards zero
F64AsI64(h) == IF h < 0 THEN -((-h) \div 2) ELSE h \div 2

\* Number::from(i64)
NumberFromI64(i) == IF i < 0 THEN NegInt(i) ELSE PosInt(i)

\* the Number that _decode_json makes of a Float64 payload
NumberOfF64(value) ==
    IF 2 * F64AsU64(value) = value
    THEN (IF value >= 0 THEN PosInt(F64AsU64(value))
          ELSE NumberFromI64(F64AsI64(value)))
    ELSE Float(value)

\* a < b for byte strings: the order of String, and so of a Map's keys
RECURSIVE BytesLess(_, _)
BytesLess(a, b) ==
    IF Len(b) = 0 THEN FALSE
    ELSE IF Len(a) = 0 THEN TRUE
    ELSE IF a[1] # b[1] THEN a[1] < b[1]
    ELSE BytesLess(Tail(a), Tail(b))

\* Map::insert: the value of an existing key is replaced
RECURSIVE MapInsert(_, _, _)
MapInsert(m, k, v) ==
    IF Len(m) = 0 THEN << <<k, v>> >>
    ELSE IF m[1][1] = k THEN << <<k, v>> >> \o Tail(m)
    ELSE IF BytesLess(k, m[1][1]) THEN << <<k, v>> >> \o m
    ELSE << m[1] >> \o MapInsert(Tail(m), k, v)

RECURSIVE _encode_json(_, _), EncodeEntries(_, _), EncodePairs(_, _)

\* for entry in value { _encode_json(encoder, entry); }
EncodeEntries(encoder, entries) ==
    IF Len(entries) = 0 THEN encoder
    ELSE EncodeEntries(_encode_json(encoder, Head(entries)), Tail(entries))

\* for (k, v) in value { encoder.append_symbol(k); _encode_json(encoder, v); }
EncodePairs(encoder, pairs) ==
    IF Len(pairs) = 0 THEN encoder
    ELSE EncodePairs(_encode_json(append_symbol(encoder, Head(pairs)[1]),
                                  Head(pairs)[2]),
                     Tail(pairs))

_encode_json(encoder, value) ==
    CASE value[1] = "Null" -> append_byte(encoder, WT_Null)
      [] value[1] = "Bool" ->
            IF value[2] THEN append_byte(encoder, WT_BoolTrue)
            ELSE append_byte(encoder, WT_BoolFalse)
      [] value[1] = "Number" ->
            append(append_byte(encoder, WT_Float64), F64ToLeBytes(as_f64(value[2])))
      [] value[1] = "String" ->
            append(append_size(append_byte(encoder, WT_String),
                               ToU64(Len(value[2]))),
                   value[2])
      [] value[1] = "Array" ->
            IF Len(value[2]) > 0
            THEN end_size(EncodeEntries(
                     append_size(begin_size(append_byte(encoder, WT_List)),
                                 ToU64(Len(value[2]))),
                     value[2]))
            ELSE append_byte(append_byte(encoder, WT_List), 0)
      [] value[1] = "Object" ->
            IF Len(value[2]) > 0
            THEN end_size(EncodePairs(
                     append_size(begin_size(append_byte(encoder, WT_Null + WIRE_FLAG_TAGS)),
                                 ToU64(Len(value[2]))),
                     value[2]))
            ELSE append_byte(append_byte(encoder, WT_Null + WIRE_FLAG_TAGS), 0)

\* encode_json with the encoder Encoder::new(size_max_bytes, compress_sizes):
\* what build() returns (encode_json itself unwraps it, with the default
\* encoder)
EncodeJsonWith(size_max_bytes, compress_sizes, value) ==
    build(_encode_json(NewEncoder(size_max_bytes, compress_sizes), value))

\* encode_json
encode_json(value) == build(_encode_json(DefaultEncoder, value))

JOk(v)   == [st |-> "Ok", err |-> "", val |-> v]
JErr(e)  == [st |-> "Err", err |-> e, val |-> JNull]
JPanic   == [st |-> "Panic", err |-> "", val |-> JNull]
\* the payload is an f64 outside F64Domain: the model does not say what
\* number it becomes
JUnmodelled == [st |-> "Unmodelled", err |-> "", val |-> JNull]

RECURSIVE _decode_json(_), DecodeTags(_, _), DecodeList(_, _)

\* the loop over the tags of _decode_json, map the Map so far
DecodeTags(dec, map) ==
    Bind(TagDecoderNext(dec), LAMBDA n :
        IF n.panic THEN JPanic
        ELSE IF n.some
        THEN IF ~IsUtf8(n.sym) THEN JErr("StringInvalidUtf8")
             ELSE Bind(_decode_json(n.val), LAMBDA r :
                     IF r.st # "Ok" THEN r
                     ELSE DecodeTags(n.dec, MapInsert(map, n.sym, r.val)))
        ELSE Bind(TagDecoderCheckError(n.dec), LAMBDA error :
                IF error # "Ok" THEN JErr(error) ELSE JOk(JObject(map))))

\* the loop over the list of _decode_json, values the Vec so far
DecodeList(dec, values) ==
    Bind(ListDecoderNext(dec), LAMBDA n :
        IF n.panic THEN JPanic
        ELSE IF n.some
        THEN Bind(_decode_json(n.val), LAMBDA r :
                IF r.st # "Ok" THEN r
                ELSE DecodeList(n.dec, Append(values, r.val)))
        ELSE Bind(ListDecoderCheckError(n.dec), LAMBDA error :
                IF error # "Ok" THEN JErr(error) ELSE JOk(JArray(values))))

_decode_json(value) ==
    CASE value.payload[1] = "Null" ->
            IF value.has_tags
            THEN Bind(TagDecoderNew(value.tags), LAMBDA tags :
                    IF tags.st # "Ok" THEN JErr(tags.err)
                    ELSE DecodeTags(tags.dec, <<>>))
            ELSE JOk(JNull)
      [] value.payload[1] = "Bool" -> JOk(JBool(value.payload[2]))
      [] value.payload[1] = "Float64" ->
            IF \E h \in F64Domain : F64ToLeBytes(h) = value.payload[2]
            THEN JOk(JNumber(NumberOfF64(F64FromLeBytes(value.payload[2]))))
            ELSE JUnmodelled
      [] value.payload[1] = "String" -> JOk(JString(value.payload[2]))
      [] value.payload[1] = "List" ->
            Bind(ListDecoderNew(value.payload[2]), LAMBDA payload :
                IF payload.st # "Ok" THEN JErr(payload.err)
                ELSE DecodeList(payload.dec, <<>>))
      [] OTHER -> JErr("InvalidWireType")

\* decode_json
decode_json(buffer) ==
    Bind(decode_value(NewReader(buffer)), LAMBDA v :
        IF v.st = "Panic" THEN JPanic
        ELSE IF v.st = "Err" THEN JErr(v.err)
        ELSE Bind(_decode_json(v.val), LAMBDA r :
                IF r.st # "Ok" THEN r
                ELSE IF HasSome(v.rdr) THEN JErr("TrailingData")
                ELSE r))

----------------------------------------------------------------------------
(* The size codec driven on its own: a value is encoded (encode_size) and  *)
(* the first `length` bytes, followed by bytes that belong to something    *)
(* else, are decoded (decode_size); or a value is laid out by hand in any  *)
(* of the four widths that hold it and decoded.                            *)

U64Bytes(b1, b2, b3, b4, b5, b6, b7, b8) == <<b1, b2, b3, b4, b5, b6, b7, b8>>

\* 63, 64, 16383, 16384, 2^30-1, 2^30, 2^62-1, 2^62, 2^63, 2^64-1 and
\* neighbours of the class boundaries
BoundarySizes ==
    { ToU64(16383), ToU64(16384), ToU64(16385), ToU64(65535), ToU64(65536),
      ToU64(1073741823), ToU64(1073741824), ToU64(1073741825),
      U64Bytes(255, 255, 255, 255, 0, 0, 0, 0),
      U64Bytes(0, 0, 0, 0, 1, 0, 0, 0),
      U64Bytes(255, 255, 255, 255, 255, 255, 255, 63),
      U64Bytes(254, 255, 255, 255, 255, 255, 255, 63),
      U64Bytes(0, 0, 0, 0, 0, 0, 0, 64),
      U64Bytes(1, 0, 0, 0, 0, 0, 0, 64),
      U64Bytes(0, 0, 0, 0, 0, 0, 0, 128),
      U64Bytes(255, 255, 255, 255, 255, 255, 255, 255) }

SizeInputs == { ToU64(n) : n \in 0..MaxSmallSize } \cup BoundarySizes

\* bytes that follow a varint in a buffer and are not part of it
SizeTails == { <<>>, <<255>>, <<1, 2, 3>> }

Widths == {1, 2, 4, 8}

\* the class tag of a width
WidthClass(w) == CASE w = 1 -> 0 [] w = 2 -> 1 [] w = 4 -> 2 [] w = 8 -> 3

NoEnc == [panic |-> FALSE, bytes |-> Zeros(8), length |-> 0]
NoDec == [some |-> FALSE, rdr |-> NewReader(<<>>)]

SzInit ==
    /\ sz_pc = "init"
    /\ sz_value \in SizeInputs
    /\ sz_enc = NoEnc
    /\ sz_dec = NoDec
    /\ sz_width = 0

\* let (bytes, length) = encode_size(value)
SzEncode ==
    /\ sz_pc = "init"
    /\ sz_pc' = "encoded"
    /\ sz_enc' = encode_size(sz_value)
    /\ UNCHANGED <<sz_value, sz_dec, sz_width>>

\* decode_size(&mut Reader::new(&bytes[..length] ++ tail))
SzDecode ==
    /\ sz_pc = "encoded"
    /\ ~sz_enc.panic
    /\ \E tail \in SizeTails :
         sz_dec' = decode_size(NewReader(Take(sz_enc.bytes, sz_enc.length) \o tail))
    /\ sz_pc' = "decoded"
    /\ sz_width' = sz_enc.length
    /\ UNCHANGED <<sz_value, sz_enc>>

\* decode_size over (value << 2 | class) written little-endian in a width w
\* that holds it, minimal or not
SzDecodeRaw ==
    /\ sz_pc = "init"
    /\ \E w \in Widths, tail \in SizeTails :
         /\ BitLen(sz_value) <= 8 * w - 2
         /\ sz_width' = w
         /\ sz_dec' = decode_size(NewReader(
                Take(OrLow(Shl2(sz_value), WidthClass(w)), w) \o tail))
    /\ sz_pc' = "raw"
    /\ UNCHANGED <<sz_value, sz_enc>>

\* the harness is not running
SzIdle ==
    /\ sz_pc = "off"
    /\ sz_value = Zeros(8)
    /\ sz_enc = NoEnc
    /\ sz_dec = NoDec
    /\ sz_width = 0

----------------------------------------------------------------------------
(* The JSON bridge driven as main() drives it: a tree is built, encoded    *)
(* with an encoder of some width and mode, and the bytes are validated and *)
(* decoded.                                                                *)

JsonLeaves ==
    { JNull, JBool(TRUE), JBool(FALSE),
      JNumber(PosInt(0)), JNumber(PosInt(2)), JNumber(NegInt(-1)),
      JNumber(Float(3)), JNumber(Float(2)),
      JString(<<>>), JString(<<97>>), JString(<<195, 169>>),
      JArray(<<>>), JObject(<<>>) }

\* what stands beside the nested value in a container of two
JsonSibling == JString(<<97>>)

\* map keys: "", "a", "b"
JsonKeys == { <<>>, <<97>>, <<98>> }

NoBuild == [st |-> "None", bytes |-> <<>>]

JInit ==
    /\ j_pc = "tree"
    /\ j_val \in JsonLeaves
    /\ j_depth = 0
    /\ j_cfg = <<8, TRUE>>
    /\ j_out = NoBuild
    /\ j_valid = "None"
    /\ j_cursor = 0
    /\ j_back = [st |-> "None", err |-> "", val |-> JNull]

\* Value::Array around the value, alone or with a sibling
JWrapArray ==
    /\ j_pc = "tree"
    /\ j_depth < MaxDepth
    /\ j_val' \in { JArray(<<j_val>>), JArray(<<j_val, JsonSibling>>),
                    JArray(<<JsonSibling, j_val>>) }
    /\ j_depth' = j_depth + 1
    /\ UNCHANGED <<j_pc, j_cfg, j_out, j_valid, j_cursor, j_back>>

\* Value::Object around the value, alone or with a sibling
JWrapObject ==
    /\ j_pc = "tree"
    /\ j_depth < MaxDepth
    /\ \/ \E k \in JsonKeys : j_val' = JObject(<< <<k, j_val>> >>)
       \/ j_val' = JObject(<< <<<<>>, j_val>>, <<<<97>>, JsonSibling>> >>)
       \/ j_val' = JObject(<< <<<<>>, JsonSibling>>, <<<<97>>, j_val>> >>)
    /\ j_depth' = j_depth + 1
    /\ UNCHANGED <<j_pc, j_cfg, j_out, j_valid, j_cursor, j_back>>

\* let mut encoder = Encoder::new(w, c); _encode_json(&mut encoder, &v);
\* encoder.build()
JEncode ==
    /\ j_pc = "tree"
    /\ \E w \in Widths, c \in BOOLEAN :
         /\ j_cfg' = <<w, c>>
         /\ j_out' = EncodeJsonWith(w, c, j_val)
    /\ j_pc' = "encoded"
    /\ UNCHANGED <<j_val, j_depth, j_valid, j_cursor, j_back>>

\* validate(&udoc), and decode_value over the same bytes
JValidate ==
    /\ j_pc = "encoded"
    /\ j_out.st = "Ok"
    /\ j_valid' = validate(j_out.bytes)
    /\ j_cursor' = decode_value(NewReader(j_out.bytes)).rdr.cursor
    /\ j_pc' = "validated"
    /\ UNCHANGED <<j_val, j_depth, j_cfg, j_out, j_back>>

\* decode_json(&udoc)
JDecode ==
    /\ j_pc = "validated"
    /\ j_back' = decode_json(j_out.bytes)
    /\ j_pc' = "decoded"
    /\ UNCHANGED <<j_val, j_depth, j_cfg, j_out, j_valid, j_cursor>>

JIdle ==
    /\ j_pc = "off"
    /\ j_val = JNull
    /\ j_depth = 0
    /\ j_cfg = <<8, TRUE>>
    /\ j_out = NoBuild
    /\ j_valid = "None"
    /\ j_cursor = 0
    /\ j_back = [st |-> "None", err |-> "", val |-> JNull]

----------------------------------------------------------------------------
(* The validator driven on its own: a buffer is validated; then bytes are  *)
(* appended to it, or it is cut to a proper prefix, and the result is      *)
(* validated again.                                                        *)

\* header bytes, varints and payload bytes that buffers are made of:
\* 0x00, Null, Nat8 / varint 1, Int8 / varint 2, Float32 / varint 3,
\* String, List, Null + HAS_TAGS, BoolTrue + HAS_KIND + HAS_TAGS / a UTF-8
\* lead byte
ValAlphabet == {0, 1, 4, 8, 12, 19, 21, 129, 195}

RECURSIVE BytesUpTo(_)
BytesUpTo(n) ==
    IF n = 0 THEN { <<>> }
    ELSE BytesUpTo(n - 1)
         \cup { Append(b, x) : b \in { c \in BytesUpTo(n - 1) : Len(c) = n - 1 },
                               x \in ValAlphabet }

\* trees whose encodings are validated
ValCorpus ==
    JsonLeaves \cup
    { JArray(<<JNull>>),
      JObject(<< <<<<97>>, JNull>> >>),
      JArray(<<JArray(<<JString(<<97>>)>>), JBool(TRUE)>>),
      JObject(<< <<<<>>, JObject(<< <<<<97>>, JArray(<<JNull, JString(<<97>>)>>)>> >>)>>,
                 <<<<98>>, JNumber(Float(3))>> >>) }

EncodedInputs ==
    { EncodeJsonWith(w, TRUE, t).bytes : w \in Widths, t \in ValCorpus }

\* (n << 2 | class) little-endian in the width w, minimal for n or not
WideVarint(n, w) == Take(OrLow(Shl2(ToU64(n)), WidthClass(w)), w)

\* a value whose size prefix is w1 wide around a body
Sized(header, w1, body) == <<header>> \o WideVarint(Len(body), w1) \o body

\* the list [null] and the map {"a": null} with their size prefix, count and
\* symbol length in every combination of widths; the empty list and the
\* empty tag set with a size prefix 0 of every width
WideInputs ==
    { Sized(WT_List, w1, WideVarint(1, w2) \o <<WT_Null>>) : w1, w2 \in Widths }
    \cup { Sized(WT_Null + WIRE_FLAG_TAGS, w1,
                 WideVarint(1, w2) \o WideVarint(3, w3) \o <<97, WT_Null>>) :
           w1, w2, w3 \in Widths }
    \cup { Sized(WT_List, w1, <<>>) : w1 \in Widths }
    \cup { Sized(WT_Null + WIRE_FLAG_TAGS, w1, <<>>) : w1 \in Widths }

\* bytes appended to a buffer
Garbage == { <<0>>, <<1>>, <<21, 0>> }

VInitFrom(src, inputs) ==
    /\ v_pc = "input"
    /\ v_src = src
    /\ v_buf \in inputs
    /\ v_res = "None"
    /\ v_op = "none"
    /\ v_base = <<>>
    /\ v_base_res = "None"

VInit ==
    \/ VInitFrom("bytes", BytesUpTo(MaxBufLen))
    \/ VInitFrom("encoded", EncodedInputs)
    \/ VInitFrom("wide", WideInputs)

\* validate(&buffer)
VValidate ==
    /\ v_pc = "input"
    /\ v_res' = validate(v_buf)
    /\ v_pc' = "validated"
    /\ UNCHANGED <<v_src, v_buf, v_op, v_base, v_base_res>>

\* the buffer with garbage appended is the next input
VExtend ==
    /\ v_pc = "validated"
    /\ v_op = "none"
    /\ \E g \in Garbage : v_buf' = v_buf \o g
    /\ v_base' = v_buf
    /\ v_base_res' = v_res
    /\ v_op' = "extend"
    /\ v_pc' = "input"
    /\ v_res' = "None"
    /\ UNCHANGED v_src

\* a proper prefix of the buffer is the next input
VTruncate ==
    /\ v_pc = "validated"
    /\ v_op = "none"
    /\ \E k \in 0..(Len(v_buf) - 1) : v_buf' = Take(v_buf, k)
    /\ v_base' = v_buf
    /\ v_base_res' = v_res
    /\ v_op' = "prefix"
    /\ v_pc' = "input"
    /\ v_res' = "None"
    /\ UNCHANGED v_src

VIdle ==
    /\ v_pc = "off"
    /\ v_src = "bytes"
    /\ v_buf = <<>>
    /\ v_res = "None"
    /\ v_op = "none"
    /\ v_base = <<>>
    /\ v_base_res = "None"

----------------------------------------------------------------------------
(* The encoder driven on its own: an encoder of some width and mode takes  *)
(* operations in any order and is built.                                   *)

\* a payload that overflows a one-byte size: 64 bytes
Chunk8 == <<170, 170, 170, 170, 170, 170, 170, 170>>
BigChunk ==
    Chunk8 \o Chunk8 \o Chunk8 \o Chunk8 \o Chunk8 \o Chunk8 \o Chunk8 \o Chunk8

EncChunks  == { BigChunk }
EncBytes   == { WT_Null }
EncSizes   == { ToU64(5), U64Bytes(0, 0, 0, 0, 0, 0, 0, 64) }
EncSymbols == { <<97>> }

EInit ==
    /\ e_pc = "open"
    /\ \E w \in Widths, c \in BOOLEAN : e_enc = NewEncoder(w, c)
    /\ e_ops = 0
    /\ e_begun = 0
    /\ e_closed = <<>>
    /\ e_out = NoBuild
    /\ e_dest = <<>>

\* an operation may be applied: the encoder is not consumed, the program
\* has not aborted
ECanApply ==
    /\ e_pc = "open"
    /\ ~e_enc.panic
    /\ e_out.st # "Panic"
    /\ e_ops < MaxOps

EApplied(enc) ==
    /\ e_enc' = enc
    /\ e_ops' = e_ops + 1
    /\ e_out' = NoBuild
    /\ UNCHANGED <<e_pc, e_closed, e_dest>>

EAppend ==
    ECanApply /\ UNCHANGED e_begun
    /\ \E bytes \in EncChunks : EApplied(append(e_enc, bytes))
EAppendByte ==
    ECanApply /\ UNCHANGED e_begun
    /\ \E byte \in EncBytes : EApplied(append_byte(e_enc, byte))
EAppendSize ==
    ECanApply /\ UNCHANGED e_begun
    /\ \E value \in EncSizes : EApplied(append_size(e_enc, value))
EAppendSymbol ==
    ECanApply /\ UNCHANGED e_begun
    /\ \E symbol \in EncSymbols : EApplied(append_symbol(e_enc, symbol))
EBeginSize ==
    ECanApply /\ e_begun' = e_begun + 1 /\ EApplied(begin_size(e_enc))

\* end_size; the size of the scope it closes is noted
EEndSize ==
    /\ ECanApply
    /\ e_enc' = end_size(e_enc)
    /\ e_ops' = e_ops + 1
    /\ e_closed' = IF Len(e_enc.sizers) > 1
                   THEN Append(e_closed, e_enc.sizers[Len(e_enc.sizers)].size)
                   ELSE e_closed
    /\ e_out' = NoBuild
    /\ UNCHANGED <<e_pc, e_begun, e_dest>>

\* build(self): the encoder is consumed
EBuild ==
    /\ e_pc = "open"
    /\ ~e_enc.panic
    /\ e_out.st # "Panic"
    /\ e_out' = build(e_enc)
    /\ e_pc' = "built"
    /\ UNCHANGED <<e_enc, e_ops, e_begun, e_closed, e_dest>>

\* build_append(&self, &mut dest), dest still empty
EBuildAppend ==
    /\ e_pc = "open"
    /\ ~e_enc.panic
    /\ e_out.st = "None"
    /\ e_dest = <<>>
    /\ e_out' = [st |-> build_append(e_enc, e_dest).st, bytes |-> <<>>]
    /\ e_dest' = build_append(e_enc, e_dest).bytes
    /\ UNCHANGED <<e_pc, e_enc, e_ops, e_begun, e_closed>>

\* size(&self): the root's running size, or the failed assertion
ESize ==
    /\ e_pc = "open"
    /\ ~e_enc.panic
    /\ e_out.st = "None"
    /\ e_out' = IF Len(e_enc.sizers) = 1
               THEN [st |-> "Size", bytes |-> ToU64(size(e_enc))]
               ELSE [st |-> "Panic", bytes |-> <<>>]
    /\ UNCHANGED <<e_pc, e_enc, e_ops, e_begun, e_closed, e_dest>>

EIdle ==
    /\ e_pc = "off"
    /\ e_enc = DefaultEncoder
    /\ e_ops = 0
    /\ e_begun = 0
    /\ e_closed = <<>>
    /\ e_out = NoBuild
    /\ e_dest = <<>>

----------------------------------------------------------------------------
(* Two encoders of one width, one compacting and one not, given the same   *)
(* operations and then built.  The placeholders that begin_size reserves   *)
(* are noted with the size of the scope that end_size closes on them.      *)

TwinChunks  == { BigChunk, <<7, 9>> }
TwinBytes   == { WT_Null }
TwinSizes   == { ToU64(5) }
TwinSymbols == { <<97>> }

\* what dest holds before build_append is called
TwinDest == <<255, 0>>

TInit ==
    /\ t_pc = "open"
    /\ \E w \in Widths : t_c = NewEncoder(w, TRUE) /\ t_u = NewEncoder(w, FALSE)
    /\ t_ops = 0
    /\ t_slots = <<>>
    /\ t_outc = NoBuild
    /\ t_outu = NoBuild

TCanApply ==
    /\ t_pc = "open"
    /\ ~t_c.panic
    /\ ~t_u.panic
    /\ t_ops < MaxOps

TApplied(c, u) ==
    /\ t_c' = c
    /\ t_u' = u
    /\ t_ops' = t_ops + 1
    /\ UNCHANGED <<t_pc, t_slots, t_outc, t_outu>>

TAppend ==
    TCanApply /\ \E bytes \in TwinChunks :
        TApplied(append(t_c, bytes), append(t_u, bytes))

TAppendByte ==
    TCanApply /\ \E byte \in TwinBytes :
        TApplied(append_byte(t_c, byte), append_byte(t_u, byte))

TAppendSize ==
    TCanApply /\ \E value \in TwinSizes :
        TApplied(append_size(t_c, value), append_size(t_u, value))

TAppendSymbol ==
    TCanApply /\ \E symbol \in TwinSymbols :
        TApplied(append_symbol(t_c, symbol), append_symbol(t_u, symbol))

\* begin_size on both; the placeholder's offset is noted
TBeginSize ==
    /\ TCanApply
    /\ t_c' = begin_size(t_c)
    /\ t_u' = begin_size(t_u)
    /\ t_ops' = t_ops + 1
    /\ t_slots' = Append(t_slots, [offset |-> Len(t_c.buffer), size |-> 0,
                                   end |-> 0, open |-> TRUE])
    /\ UNCHANGED <<t_pc, t_outc, t_outu>>

\* the placeholder of the innermost open scope
OpenSlot(slots) ==
    CHOOSE i \in 1..Len(slots) :
        slots[i].open /\ \A j \in (i + 1)..Len(slots) : ~slots[j].open

\* end_size on both, a scope being open; the size of the scope the
\* compacting encoder closes and the length of its buffer at the call are
\* noted on the placeholder
TEndSize ==
    /\ TCanApply
    /\ Len(t_c.sizers) > 1
    /\ t_c' = end_size(t_c)
    /\ t_u' = end_size(t_u)
    /\ t_ops' = t_ops + 1
    /\ t_slots' = [t_slots EXCEPT ![OpenSlot(t_slots)] =
                      [offset |-> @.offset,
                       size |-> t_c.sizers[Len(t_c.sizers)].size,
                       end |-> Len(t_c.buffer),
                       open |-> FALSE]]
    /\ UNCHANGED <<t_pc, t_outc, t_outu>>

\* build(self) on both, every scope closed
TBuild ==
    /\ t_pc = "open"
    /\ ~t_c.panic
    /\ ~t_u.panic
    /\ Len(t_c.sizers) = 1
    /\ t_outc' = build(t_c)
    /\ t_outu' = build(t_u)
    /\ t_pc' = "built"
    /\ UNCHANGED <<t_c, t_u, t_ops, t_slots>>

\* build_append(&self, &mut dest) on both, every scope closed, each with a
\* dest that holds TwinDest
TBuildAppend ==
    /\ t_pc = "open"
    /\ ~t_c.panic
    /\ ~t_u.panic
    /\ Len(t_c.sizers) = 1
    /\ t_outc' = build_append(t_c, TwinDest)
    /\ t_outu' = build_append(t_u, TwinDest)
    /\ t_pc' = "appended"
    /\ UNCHANGED <<t_c, t_u, t_ops, t_slots>>

\* build_append(&self, &mut dest) on both once more, each with the dest
\* its first call left
TBuildAppendAgain ==
    /\ t_pc = "appended"
    /\ t_outc' = build_append(t_c, t_outc.bytes)
    /\ t_outu' = build_append(t_u, t_outu.bytes)
    /\ t_pc' = "appended twice"
    /\ UNCHANGED <<t_c, t_u, t_ops, t_slots>>

TIdle ==
    /\ t_pc = "off"
    /\ t_c = DefaultEncoder
    /\ t_u = DefaultEncoder
    /\ t_ops = 0
    /\ t_slots = <<>>
    /\ t_outc = NoBuild
    /\ t_outu = NoBuild

----------------------------------------------------------------------------
(* The decoder driven on its own: a reader stands somewhere in a buffer    *)
(* and decode_value or decode_tag_symbol is called on it, or the bytes     *)
(* from the cursor on are handed to TagDecoder::new or ListDecoder::new;   *)
(* the tags or the List payload of a decoded value are handed on as        *)
(* Value::tags and _validate hand them.                                    *)

\* what follows a header byte: enough zero bytes for a tags size 0 and any
\* fixed-width payload, then a byte that is not zero
DecPad == Zeros(8) \o <<0, 7>>

\* every header byte
HeaderSweep == { <<h>> \o DecPad : h \in 0..255 }

\* one tag: count 1, the symbol "a", Null
TagBody == <<4, 12, 97, WT_Null>>

\* a value of the wire type ty, with or without tags, its sizes written w
\* bytes wide, and bytes of something else after it
TypedValue(ty, tagged, w) ==
    << ty + (IF tagged THEN WIRE_FLAG_TAGS ELSE 0) >>
    \o (IF tagged THEN WideVarint(Len(TagBody), w) \o TagBody ELSE <<>>)
    \o (IF ty >= WT_Nat THEN WideVarint(2, w) \o <<104, 105>> ELSE <<>>)
    \o <<255, 2, 3, 4, 5, 6, 7, 8, 9>>

TypedInputs ==
    { TypedValue(ty, tagged, w) :
        ty \in WIRE_TYPE_MIN..WIRE_TYPE_MAX, tagged \in BOOLEAN, w \in Widths }

\* symbols: varint(len << 1 | 1) and len bytes; the reserved form, a varint
\* with the low bit 0; each also as the payload of a Symbol value
SymbolBytes ==
    { WideVarint(2 * Len(s) + 1, w) \o s \o <<9>> :
        s \in { <<>>, <<97>>, <<97, 98>> }, w \in Widths }
    \cup { WideVarint(2 * n, w) \o <<97, 98>> : n \in 0..2, w \in Widths }

SymbolInputs == SymbolBytes \cup { <<WT_Symbol>> \o s : s \in SymbolBytes }

\* a count n written w bytes wide and k bytes after it; a count of 2^62 - 1
CountInputs ==
    { WideVarint(n, w) \o Take(<<1, 1, 1, 1, 1, 1>>, k) :
        n \in 0..3, w \in Widths, k \in 0..6 }
    \cup { <<255, 255, 255, 255, 255, 255, 255, 255, 1, 1>> }

\* Nat8(255), true, the string "hi", and what encode_json writes for a leaf
ExampleInputs ==
    { <<4, 255>>, <<3>>, <<19, 8, 104, 105>> }
    \cup { encode_json(t).bytes : t \in JsonLeaves }

DecInputs ==
    BytesUpTo(MaxBufLen) \cup HeaderSweep \cup TypedInputs \cup SymbolInputs
    \cup CountInputs \cup ExampleInputs

\* bytes the reader has consumed before the call
DecConsumed == { <<>>, <<WT_List>> }

NoResult == [st |-> "None", err |-> "", val |-> <<>>, rdr |-> NewReader(<<>>)]
NoNew == [slice |-> <<>>, st |-> "None", err |-> "", dec |-> NoDecoder]

DInit ==
    /\ d_pc = "input"
    /\ \E pre \in DecConsumed, b \in DecInputs :
         d_rdr = [buffer |-> pre \o b, cursor |-> Len(pre)]
    /\ d_val = NoResult
    /\ d_sym = NoResult
    /\ d_new = NoNew

\* decode_value(&mut reader)
DDecodeValue ==
    /\ d_pc = "input"
    /\ d_val' = decode_value(d_rdr)
    /\ d_pc' = "value"
    /\ UNCHANGED <<d_rdr, d_sym, d_new>>

\* decode_tag_symbol(&mut reader)
DDecodeTagSymbol ==
    /\ d_pc = "input"
    /\ d_sym' = decode_tag_symbol(d_rdr)
    /\ d_pc' = "symbol"
    /\ UNCHANGED <<d_rdr, d_val, d_new>>

\* the result of TagDecoder::new or ListDecoder::new with the slice it got
Made(slice, new) ==
    [slice |-> slice, st |-> new.st, err |-> new.err, dec |-> new.dec]

\* TagDecoder::new(reader.rest())
DTagsNew ==
    /\ d_pc = "input"
    /\ d_new' = Made(Rest(d_rdr), TagDecoderNew(Rest(d_rdr)))
    /\ d_pc' = "tags"
    /\ UNCHANGED <<d_rdr, d_val, d_sym>>

\* ListDecoder::new(reader.rest())
DListNew ==
    /\ d_pc = "input"
    /\ d_new' = Made(Rest(d_rdr), ListDecoderNew(Rest(d_rdr)))
    /\ d_pc' = "list"
    /\ UNCHANGED <<d_rdr, d_val, d_sym>>

\* value.tags(): TagDecoder::new(self.tags)
DValueTags ==
    /\ d_pc = "value"
    /\ d_val.st = "Ok"
    /\ d_val.val.has_tags
    /\ d_new' = Made(d_val.val.tags, TagDecoderNew(d_val.val.tags))
    /\ d_pc' = "tags"
    /\ UNCHANGED <<d_rdr, d_val, d_sym>>

\* ListDecoder::new(payload) for a Payload::List
DValueList ==
    /\ d_pc = "value"
    /\ d_val.st = "Ok"
    /\ d_val.val.payload[1] = "List"
    /\ d_new' = Made(d_val.val.payload[2], ListDecoderNew(d_val.val.payload[2]))
    /\ d_pc' = "list"
    /\ UNCHANGED <<d_rdr, d_val, d_sym>>

DIdle ==
    /\ d_pc = "off"
    /\ d_rdr = NewReader(<<>>)
    /\ d_val = NoResult
    /\ d_sym = NoResult
    /\ d_new = NoNew

----------------------------------------------------------------------------
(* The iterators driven on their own: a buffer holds one value whose tags  *)
(* or List payload is the slice under test; the value is decoded, its tags *)
(* or payload are handed to TagDecoder::new or ListDecoder::new as         *)
(* _validate hands them, next() is called some number of times,            *)
(* check_error() is called, and the buffer is validated.                   *)

\* the next() calls made on one iterator
MaxCalls == 4

\* list elements: Null, a header with the wire type 0, Nat8(7), the string
\* "a", a string cut short, the empty list
IterElems ==
    { <<WT_Null>>, <<0>>, <<WT_Nat8, 7>>, <<WT_String, 4, 97>>,
      <<WT_String, 8, 97>>, <<WT_List, 0>> }

\* tag symbols: the empty symbol, "a", and the reserved form
IterSymbols == { <<4>>, <<12, 97>>, <<8>> }

\* what may follow the items
IterTails == { <<>>, <<WT_Null>> }

\* a count and two elements
IterLists ==
    { WideVarint(n, 1) \o a \o b \o t :
        n \in 0..3, a \in IterElems, b \in IterElems, t \in IterTails }

\* a count and two pairs
IterTags ==
    { WideVarint(n, 1) \o s1 \o a \o s2 \o b \o t :
        n \in 0..3, s1 \in IterSymbols, a \in IterElems,
        s2 \in { <<4>>, <<12, 97>> }, b \in { <<WT_Null>>, <<0>>, <<WT_Nat8>> },
        t \in IterTails }

\* the empty slice and a count 0 of every width
EmptyForms == { <<>> } \cup { WideVarint(0, w) : w \in Widths }

\* the header of a value that carries the slice: a List, or Null with tags
CarrierHeader(kind) ==
    IF kind = "list" THEN WT_List ELSE WT_Null + WIRE_FLAG_TAGS

\* trees whose encodings are iterated
IterTrees ==
    { JArray(<<>>), JObject(<<>>),
      JArray(<<JNull>>), JArray(<<JBool(TRUE), JString(<<97>>)>>),
      JObject(<< <<<<97>>, JNull>> >>),
      JObject(<< <<<<97>>, JBool(FALSE)>>, <<<<98>>, JArray(<<JNull>>)>> >>) }

\* string payloads: "", "a", U+00E9, and four byte strings that are not
\* UTF-8
IterStrings ==
    { <<>>, <<97>>, <<195, 169>>, <<255>>, <<195>>, <<195, 40>>, <<128>> }

StringValue(s) == <<WT_String>> \o WideVarint(Len(s), 1) \o s

\* a buffer with the string s as the root, as the second element of a list,
\* as the value of the second tag, or as the element of a list that is the
\* value of a tag of an element of a list
StringDoc(shape, s) ==
    CASE shape = "root" -> StringValue(s)
      [] shape = "element" ->
            Sized(WT_List, 1, WideVarint(2, 1) \o <<WT_Null>> \o StringValue(s))
      [] shape = "tag value" ->
            Sized(WT_Null + WIRE_FLAG_TAGS, 1,
                  WideVarint(2, 1) \o <<4, WT_BoolTrue>>
                  \o <<12, 97>> \o StringValue(s))
      [] shape = "nested" ->
            Sized(WT_List, 1, WideVarint(1, 1) \o
                Sized(WT_BoolFalse + WIRE_FLAG_TAGS, 1, WideVarint(1, 1) \o <<12, 97>> \o
                    Sized(WT_List, 1, WideVarint(1, 1) \o StringValue(s))))

StringShapes == { "root", "element", "tag value", "nested" }

ShapeKind(shape) ==
    CASE shape = "root" -> "leaf"
      [] shape = "tag value" -> "tags"
      [] OTHER -> "list"

NoDoc == [src |-> "bytes", tree |-> JNull, shape |-> "", str |-> <<>>]

IFresh ==
    /\ i_pc = "input"
    /\ i_new = NoNew
    /\ i_dec = NoDecoder
    /\ i_calls = <<>>
    /\ i_chk = "None"
    /\ i_valid = "None"

IInitBytes ==
    /\ i_kind \in { "list", "tags" }
    /\ \E slice \in BytesUpTo(MaxBufLen) \cup EmptyForms
                    \cup (IF i_kind = "list" THEN IterLists ELSE IterTags) :
         \E w \in (IF Len(slice) <= 1 THEN Widths ELSE { 1 }) :
            i_buf = Sized(CarrierHeader(i_kind), w, slice)
    /\ i_doc = NoDoc

IInitJson ==
    \E t \in IterTrees :
        /\ i_kind = (IF t[1] = "Array" THEN "list" ELSE "tags")
        /\ i_buf = encode_json(t).bytes
        /\ i_doc = [src |-> "json", tree |-> t, shape |-> "", str |-> <<>>]

IInitString ==
    \E shape \in StringShapes, s \in IterStrings :
        /\ i_kind = ShapeKind(shape)
        /\ i_buf = StringDoc(shape, s)
        /\ i_doc = [src |-> "string", tree |-> JNull, shape |-> shape, str |-> s]

IInit == (IInitBytes \/ IInitJson \/ IInitString) /\ IFresh

\* the value a buffer holds: decode_value(&mut Reader::new(&buffer))
IValue == decode_value(NewReader(i_buf))

INewStep(slice, new) ==
    /\ i_new' = Made(slice, new)
    /\ i_dec' = new.dec
    /\ i_pc' = (IF new.st = "Ok" THEN "iter" ELSE "refused")
    /\ UNCHANGED <<i_kind, i_buf, i_doc, i_calls, i_chk, i_valid>>

\* let mut tags = value.tags()
IValueTags ==
    /\ i_pc = "input"
    /\ i_kind = "tags"
    /\ IValue.st = "Ok"
    /\ IValue.val.has_tags
    /\ INewStep(IValue.val.tags, TagDecoderNew(IValue.val.tags))

\* let mut payload = ListDecoder::new(value)
IListNew ==
    /\ i_pc = "input"
    /\ i_kind = "list"
    /\ IValue.st = "Ok"
    /\ IValue.val.payload[1] = "List"
    /\ INewStep(IValue.val.payload[2], ListDecoderNew(IValue.val.payload[2]))

\* one next() call as the caller sees it: an item, None after a decode
\* error ("fail", with the error the call stored), None with nothing left
\* to decode, or a panic; and the count before and after the call
IterCall(dec, n) ==
    [out |-> IF n.panic THEN "panic"
             ELSE IF n.some THEN "item"
             ELSE IF dec.remaining > 0 THEN "fail" ELSE "none",
     err |-> IF ~n.panic /\ ~n.some /\ dec.remaining > 0 THEN n.dec.error ELSE "",
     sym |-> n.sym, val |-> n.val,
     before |-> dec.remaining, after |-> n.dec.remaining]

INextStep(n) ==
    /\ i_calls' = Append(i_calls, IterCall(i_dec, n))
    /\ i_dec' = n.dec
    /\ i_pc' = (IF n.panic THEN "panic" ELSE "iter")
    /\ UNCHANGED <<i_kind, i_buf, i_doc, i_new, i_chk, i_valid>>

\* tags.next()
ITagsNext ==
    /\ i_pc = "iter"
    /\ i_kind = "tags"
    /\ Len(i_calls) < MaxCalls
    /\ INextStep(TagDecoderNext(i_dec))

\* payload.next()
IListNext ==
    /\ i_pc = "iter"
    /\ i_kind = "list"
    /\ Len(i_calls) < MaxCalls
    /\ INextStep(ListDecoderNext(i_dec))

\* tags.check_error()
ITagsCheckError ==
    /\ i_pc = "iter"
    /\ i_kind = "tags"
    /\ i_chk' = TagDecoderCheckError(i_dec)
    /\ i_pc' = "checked"
    /\ UNCHANGED <<i_kind, i_buf, i_doc, i_new, i_dec, i_calls, i_valid>>

\* payload.check_error()
IListCheckError ==
    /\ i_pc = "iter"
    /\ i_kind = "list"
    /\ i_chk' = ListDecoderCheckError(i_dec)
    /\ i_pc' = "checked"
    /\ UNCHANGED <<i_kind, i_buf, i_doc, i_new, i_dec, i_calls, i_valid>>

\* validate(&buffer)
IValidate ==
    /\ i_valid = "None"
    /\ \/ i_pc \in { "checked", "refused" }
       \/ i_pc = "input" /\ i_kind = "leaf"
    /\ i_valid' = validate(i_buf)
    /\ UNCHANGED <<i_pc, i_kind, i_buf, i_doc, i_new, i_dec, i_calls, i_chk>>

IIdle ==
    /\ i_pc = "off"
    /\ i_kind = "list"
    /\ i_buf = <<>>
    /\ i_doc = NoDoc
    /\ i_new = NoNew
    /\ i_dec = NoDecoder
    /\ i_calls = <<>>
    /\ i_chk = "None"
    /\ i_valid = "None"

----------------------------------------------------------------------------
(* The reader on its own: calls of its methods on readers over a few       *)
(* buffers, with arguments up to MaxRead and at the top of the usize       *)
(* range.                                                                  *)

\* the largest small argument of peek, peek_n and next_n
MaxRead == 4

ReaderBuffers ==
    { <<>>, <<7>>, <<7, 9>>, <<7, 9, 11>>, <<1, 2, 3, 4, 5, 6, 7, 8, 9>> }

\* usize::MAX and usize::MAX - 1
TopSizes == { -1, -2 }

ReadSizes == 0..MaxRead \cup TopSizes

NoCall == [op |-> "", n |-> 0]

RInit ==
    /\ r_pc = "ready"
    /\ r_checks \in BOOLEAN
    /\ \E b \in ReaderBuffers : r_rdr = NewReader(b)
    /\ r_old = r_rdr
    /\ r_call = NoCall
    /\ r_res = Nothing(r_rdr)

\* a call was made on the reader: what it returned and the reader after it
RCalled(op, n, res) ==
    /\ r_pc # "panic"
    /\ r_old' = r_rdr
    /\ r_call' = [op |-> op, n |-> n]
    /\ r_res' = res
    /\ r_rdr' = res.rdr
    /\ r_pc' = (IF res.out = "panic" THEN "panic" ELSE "called")
    /\ UNCHANGED r_checks

RPeek  == \E offset \in ReadSizes : RCalled("peek", offset, peek(r_rdr, offset, r_checks))
RNext  == RCalled("next", 1, next(r_rdr, r_checks))
RPeekN == \E n \in ReadSizes : RCalled("peek_n", n, peek_n(r_rdr, n, r_checks))
RNextN == \E n \in ReadSizes : RCalled("next_n", n, next_n(r_rdr, n, r_checks))
RNextBytes ==
    \E N \in Widths : RCalled("next_bytes", N, next_bytes(r_rdr, N, r_checks))

RIdle ==
    /\ r_pc = "off"
    /\ r_checks = FALSE
    /\ r_rdr = NewReader(<<>>)
    /\ r_old = NewReader(<<>>)
    /\ r_call = NoCall
    /\ r_res = Nothing(NewReader(<<>>))

----------------------------------------------------------------------------
(* Specifications: each harness on its own.                                *)

vars == <<sz_vars, j_vars, v_vars, e_vars, t_vars, d_vars, i_vars, r_vars>>

SizeNext ==
    \/ SzEncode /\ UNCHANGED <<j_vars, v_vars, e_vars, t_vars, d_vars, i_vars, r_vars>>
    \/ SzDecode /\ UNCHANGED <<j_vars, v_vars, e_vars, t_vars, d_vars, i_vars, r_vars>>
    \/ SzDecodeRaw /\ UNCHANGED <<j_vars, v_vars, e_vars, t_vars, d_vars, i_vars, r_vars>>

InitSize == SzInit /\ JIdle /\ VIdle /\ EIdle /\ TIdle /\ DIdle /\ IIdle /\ RIdle

SpecSize == InitSize /\ [][SizeNext]_vars

JsonNext ==
    \/ JWrapArray /\ UNCHANGED <<sz_vars, v_vars, e_vars, t_vars, d_vars, i_vars, r_vars>>
    \/ JWrapObject /\ UNCHANGED <<sz_vars, v_vars, e_vars, t_vars, d_vars, i_vars, r_vars>>
    \/ JEncode /\ UNCHANGED <<sz_vars, v_vars, e_vars, t_vars, d_vars, i_vars, r_vars>>
    \/ JValidate /\ UNCHANGED <<sz_vars, v_vars, e_vars, t_vars, d_vars, i_vars, r_vars>>
    \/ JDecode /\ UNCHANGED <<sz_vars, v_vars, e_vars, t_vars, d_vars, i_vars, r_vars>>

InitJson == SzIdle /\ JInit /\ VIdle /\ EIdle /\ TIdle /\ DIdle /\ IIdle /\ RIdle

SpecJson == InitJson /\ [][JsonNext]_vars

ValNext ==
    \/ VValidate /\ UNCHANGED <<sz_vars, j_vars, e_vars, t_vars, d_vars, i_vars, r_vars>>
    \/ VExtend /\ UNCHANGED <<sz_vars, j_vars, e_vars, t_vars, d_vars, i_vars, r_vars>>
    \/ VTruncate /\ UNCHANGED <<sz_vars, j_vars, e_vars, t_vars, d_vars, i_vars, r_vars>>

InitVal == SzIdle /\ JIdle /\ VInit /\ EIdle /\ TIdle /\ DIdle /\ IIdle /\ RIdle

SpecVal == InitVal /\ [][ValNext]_vars

\* the size codec and the validator over buffers with sizes of every width
InitWide ==
    /\ \/ SzInit /\ VIdle
       \/ SzIdle /\ VInitFrom("wide", WideInputs)
    /\ JIdle /\ EIdle /\ TIdle /\ DIdle /\ IIdle /\ RIdle

WideNext == SizeNext \/ ValNext

SpecWide == InitWide /\ [][WideNext]_vars

EncNext ==
    \/ EAppend /\ UNCHANGED <<sz_vars, j_vars, v_vars, t_vars, d_vars, i_vars, r_vars>>
    \/ EAppendByte /\ UNCHANGED <<sz_vars, j_vars, v_vars, t_vars, d_vars, i_vars, r_vars>>
    \/ EAppendSize /\ UNCHANGED <<sz_vars, j_vars, v_vars, t_vars, d_vars, i_vars, r_vars>>
    \/ EAppendSymbol /\ UNCHANGED <<sz_vars, j_vars, v_vars, t_vars, d_vars, i_vars, r_vars>>
    \/ EBeginSize /\ UNCHANGED <<sz_vars, j_vars, v_vars, t_vars, d_vars, i_vars, r_vars>>
    \/ EEndSize /\ UNCHANGED <<sz_vars, j_vars, v_vars, t_vars, d_vars, i_vars, r_vars>>
    \/ EBuild /\ UNCHANGED <<sz_vars, j_vars, v_vars, t_vars, d_vars, i_vars, r_vars>>
    \/ EBuildAppend /\ UNCHANGED <<sz_vars, j_vars, v_vars, t_vars, d_vars, i_vars, r_vars>>
    \/ ESize /\ UNCHANGED <<sz_vars, j_vars, v_vars, t_vars, d_vars, i_vars, r_vars>>

InitEnc == SzIdle /\ JIdle /\ VIdle /\ EInit /\ TIdle /\ DIdle /\ IIdle /\ RIdle

SpecEnc == InitEnc /\ [][EncNext]_vars

\* 2^14 - 1 bytes: the longest content whose size fits a two-byte varint
Chunk512 ==
    BigChunk \o BigChunk \o BigChunk \o BigChunk
        \o BigChunk \o BigChunk \o BigChunk \o BigChunk
Chunk4096 ==
    Chunk512 \o Chunk512 \o Chunk512 \o Chunk512
        \o Chunk512 \o Chunk512 \o Chunk512 \o Chunk512
LongChunk == Take(Chunk4096 \o Chunk4096 \o Chunk4096 \o Chunk4096, 2^14 - 1)

\* an encoder with two-byte placeholders after begin_size() and one
\* append(LongChunk)
ELongInit ==
    /\ e_pc = "open"
    /\ \E c \in BOOLEAN :
         e_enc = append(begin_size(NewEncoder(2, c)), LongChunk)
    /\ e_ops = 2
    /\ e_begun = 1
    /\ e_closed = <<>>
    /\ e_out = NoBuild
    /\ e_dest = <<>>

\* the encoder, also from a scope one byte short of the two-byte limit,
\* next to the size codec that end_size asks for the width of a size
InitOverflow ==
    /\ \/ (EInit \/ ELongInit) /\ SzIdle
       \/ EIdle /\ SzInit
    /\ JIdle /\ VIdle /\ TIdle /\ DIdle /\ IIdle /\ RIdle

OverflowNext == EncNext \/ SizeNext

SpecOverflow == InitOverflow /\ [][OverflowNext]_vars

TwinNext ==
    \/ TAppend /\ UNCHANGED <<sz_vars, j_vars, v_vars, e_vars, d_vars, i_vars, r_vars>>
    \/ TAppendByte /\ UNCHANGED <<sz_vars, j_vars, v_vars, e_vars, d_vars, i_vars, r_vars>>
    \/ TAppendSize /\ UNCHANGED <<sz_vars, j_vars, v_vars, e_vars, d_vars, i_vars, r_vars>>
    \/ TAppendSymbol /\ UNCHANGED <<sz_vars, j_vars, v_vars, e_vars, d_vars, i_vars, r_vars>>
    \/ TBeginSize /\ UNCHANGED <<sz_vars, j_vars, v_vars, e_vars, d_vars, i_vars, r_vars>>
    \/ TEndSize /\ UNCHANGED <<sz_vars, j_vars, v_vars, e_vars, d_vars, i_vars, r_vars>>
    \/ TBuild /\ UNCHANGED <<sz_vars, j_vars, v_vars, e_vars, d_vars, i_vars, r_vars>>
    \/ TBuildAppend /\ UNCHANGED <<sz_vars, j_vars, v_vars, e_vars, d_vars, i_vars, r_vars>>
    \/ TBuildAppendAgain /\ UNCHANGED <<sz_vars, j_vars, v_vars, e_vars, d_vars, i_vars, r_vars>>

InitTwin == SzIdle /\ JIdle /\ VIdle /\ EIdle /\ TInit /\ DIdle /\ IIdle /\ RIdle

SpecTwin == InitTwin /\ [][TwinNext]_vars

DecNext ==
    \/ DDecodeValue /\ UNCHANGED <<sz_vars, j_vars, v_vars, e_vars, t_vars, i_vars, r_vars>>
    \/ DDecodeTagSymbol /\ UNCHANGED <<sz_vars, j_vars, v_vars, e_vars, t_vars, i_vars, r_vars>>
    \/ DTagsNew /\ UNCHANGED <<sz_vars, j_vars, v_vars, e_vars, t_vars, i_vars, r_vars>>
    \/ DListNew /\ UNCHANGED <<sz_vars, j_vars, v_vars, e_vars, t_vars, i_vars, r_vars>>
    \/ DValueTags /\ UNCHANGED <<sz_vars, j_vars, v_vars, e_vars, t_vars, i_vars, r_vars>>
    \/ DValueList /\ UNCHANGED <<sz_vars, j_vars, v_vars, e_vars, t_vars, i_vars, r_vars>>

InitDec == SzIdle /\ JIdle /\ VIdle /\ EIdle /\ TIdle /\ DInit /\ IIdle /\ RIdle

SpecDec == InitDec /\ [][DecNext]_vars

IterNext ==
    \/ IValueTags /\ UNCHANGED <<sz_vars, j_vars, v_vars, e_vars, t_vars, d_vars, r_vars>>
    \/ IListNew /\ UNCHANGED <<sz_vars, j_vars, v_vars, e_vars, t_vars, d_vars, r_vars>>
    \/ ITagsNext /\ UNCHANGED <<sz_vars, j_vars, v_vars, e_vars, t_vars, d_vars, r_vars>>
    \/ IListNext /\ UNCHANGED <<sz_vars, j_vars, v_vars, e_vars, t_vars, d_vars, r_vars>>
    \/ ITagsCheckError /\ UNCHANGED <<sz_vars, j_vars, v_vars, e_vars, t_vars, d_vars, r_vars>>
    \/ IListCheckError /\ UNCHANGED <<sz_vars, j_vars, v_vars, e_vars, t_vars, d_vars, r_vars>>
    \/ IValidate /\ UNCHANGED <<sz_vars, j_vars, v_vars, e_vars, t_vars, d_vars, r_vars>>

InitIter == SzIdle /\ JIdle /\ VIdle /\ EIdle /\ TIdle /\ DIdle /\ IInit /\ RIdle

SpecIter == InitIter /\ [][IterNext]_vars

ReaderNext ==
    \/ RPeek /\ UNCHANGED <<sz_vars, j_vars, v_vars, e_vars, t_vars, d_vars, i_vars>>
    \/ RNext /\ UNCHANGED <<sz_vars, j_vars, v_vars, e_vars, t_vars, d_vars, i_vars>>
    \/ RPeekN /\ UNCHANGED <<sz_vars, j_vars, v_vars, e_vars, t_vars, d_vars, i_vars>>
    \/ RNextN /\ UNCHANGED <<sz_vars, j_vars, v_vars, e_vars, t_vars, d_vars, i_vars>>
    \/ RNextBytes /\ UNCHANGED <<sz_vars, j_vars, v_vars, e_vars, t_vars, d_vars, i_vars>>

InitReader == SzIdle /\ JIdle /\ VIdle /\ EIdle /\ TIdle /\ DIdle /\ IIdle /\ RInit

SpecReader == InitReader /\ [][ReaderNext]_vars

----------------------------------------------------------------------------
(* Properties of the JSON bridge, under SpecJson.                          *)

\* C1: every tree encoded by encode_json with the default encoder
\* (size_max_bytes = 8, compress_sizes = true) builds, the bytes validate
\* Ok, and decode_value over them leaves the cursor at their length.
C1_DefaultEncodingValidates ==
    (j_pc \in {"encoded", "validated", "decoded"} /\ j_cfg = <<8, TRUE>>) =>
        /\ j_out = encode_json(j_val)
        /\ j_out.st = "Ok"
        /\ j_pc \in {"validated", "decoded"} =>
              /\ j_valid = "Ok"
              /\ j_cursor = Len(j_out.bytes)

\* a map in a list in a map went through the default encoder and validate
C1_Witness ==
    /\ j_pc = "validated"
    /\ j_cfg = <<8, TRUE>>
    /\ j_depth = 2
    /\ j_val = JObject(<< <<<<>>, JArray(<<JObject(<<>>), JsonSibling>>)>>,
                          <<<<97>>, JsonSibling>> >>)
    /\ j_valid = "Ok"
    /\ j_cursor = Len(j_out.bytes)

\* C2: decode_json(encode_json(v)) = v for every tree v of nulls, booleans,
\* numbers, strings, lists and maps.
C2_RoundTrip ==
    (j_pc = "decoded" /\ j_cfg = <<8, TRUE>>) =>
        /\ j_back.st = "Ok"
        /\ j_back.val = j_val

\* C3: for every width in {1, 2, 4, 8} and both modes the encoding of a
\* tree (no scope overflowing) validates, and decodes to what the default
\* encoder's bytes decode to.
C3_EveryWidthAndMode ==
    /\ j_pc \in {"encoded", "validated", "decoded"} => j_out.st = "Ok"
    /\ j_pc \in {"validated", "decoded"} => j_valid = "Ok"
    /\ j_pc = "decoded" => j_back = decode_json(encode_json(j_val).bytes)

----------------------------------------------------------------------------
(* Properties of the encoder, under SpecEnc.                               *)

\* some end_size has closed a scope whose size needs more varint bytes
\* than size_max_bytes
ScopeOverflowed ==
    \E i \in 1..Len(e_closed) :
        encode_size(ToU64(e_closed[i])).length > e_enc.size_max_bytes

\* C4: once an end_size has closed a scope that overflows size_max_bytes,
\* the flag is set and stays set whatever is done afterwards, and every
\* build() or build_append() that returns returns SizeOverflow; the
\* converse: SizeOverflow is returned only after such an end_size.
C4_OverflowLatched ==
    /\ ScopeOverflowed =>
          /\ e_enc.size_overflow
          /\ e_out.st \in {"Ok", "SizeOverflow"} => e_out.st = "SizeOverflow"
    /\ e_out.st = "SizeOverflow" => ScopeOverflowed

\* a scope of 64 bytes overflowed a one-byte placeholder, a scope that fits
\* was opened and closed after it, and build() returned SizeOverflow
C4_Witness ==
    /\ e_pc = "built"
    /\ e_enc.size_max_bytes = 1
    /\ Len(e_closed) = 2
    /\ e_closed[1] = 64
    /\ e_closed[2] = 0
    /\ ~e_enc.panic
    /\ e_out.st = "SizeOverflow"

----------------------------------------------------------------------------
(* Properties of the size codec, under SpecSize and SpecWide.              *)

\* C5: for every v < 2^62, encode_size(v) returns, and decode_size over its
\* first length bytes (whatever follows them) returns v and consumes
\* exactly length bytes.
C5_SizeRoundTrip ==
    /\ (sz_pc = "encoded" /\ BitLen(sz_value) <= 62) => ~sz_enc.panic
    /\ sz_pc = "decoded" =>
          /\ sz_dec.some
          /\ sz_dec.val = sz_value
          /\ sz_dec.rdr.cursor = sz_enc.length

\* 2^62 - 1 went through encode_size and decode_size
C5_Witness ==
    /\ sz_pc = "decoded"
    /\ sz_value = U64Bytes(255, 255, 255, 255, 255, 255, 255, 63)
    /\ sz_dec.some
    /\ sz_dec.rdr.cursor = 8
    /\ Len(sz_dec.rdr.buffer) = 11

\* C6: encode_size(v) picks the smallest class: 1 byte, class 00 iff
\* v <= 63; 2 bytes, class 01 iff 64 <= v <= 16383; 4 bytes, class 10 iff
\* 16384 <= v <= 2^30 - 1; 8 bytes, class 11 iff 2^30 <= v <= 2^62 - 1; the
\* bytes are (v << 2 | class) little-endian in that width; 0 -> [00],
\* 63 -> [FC], 64 -> [01 01], 16383 -> [FD FF], 16384 -> [02 00 01 00].
C6_MinimalClass ==
    (sz_pc = "encoded" /\ sz_value[8] < 64) =>
        LET v     == sz_value
            high  == \A i \in 5..8 : v[i] = 0
            class == IF high /\ v[4] = 0 /\ v[3] = 0 /\ v[2] = 0 /\ v[1] <= 63 THEN 0
                     ELSE IF high /\ v[4] = 0 /\ v[3] = 0 /\ v[2] <= 63 THEN 1
                     ELSE IF high /\ v[4] <= 63 THEN 2
                     ELSE 3
            width == CASE class = 0 -> 1 [] class = 1 -> 2
                       [] class = 2 -> 4 [] class = 3 -> 8
            out   == Take(sz_enc.bytes, sz_enc.length)
        IN  /\ ~sz_enc.panic
            /\ sz_enc.length = width
            /\ sz_enc.bytes[1] % 4 = class
            /\ sz_enc.bytes[1] \div 4 = v[1] % 64
            /\ \A i \in 2..8 :
                  sz_enc.bytes[i] = (v[i] % 64) * 4 + (v[i - 1] \div 64)
            /\ \A i \in (width + 1)..8 : sz_enc.bytes[i] = 0
            /\ v = ToU64(0)     => out = <<0>>
            /\ v = ToU64(63)    => out = <<252>>
            /\ v = ToU64(64)    => out = <<1, 1>>
            /\ v = ToU64(16383) => out = <<253, 255>>
            /\ v = ToU64(16384) => out = <<2, 0, 1, 0>>

\* 16384, the first value of the four-byte class, was encoded
C6_Witness ==
    /\ sz_pc = "encoded"
    /\ sz_value = ToU64(16384)
    /\ sz_enc.length = 4
    /\ Take(sz_enc.bytes, 4) = <<2, 0, 1, 0>>

\* C7: encode_size of a value >= 2^62 returns an error result: it does not
\* abort the program, and it produces no bytes.
C7_OverflowIsAnError ==
    (sz_pc = "encoded" /\ sz_value[8] >= 64) =>
        /\ ~sz_enc.panic
        /\ sz_enc.length = 0

\* C8: decode_size reads the width its first byte's low two bits name and
\* shifts right by two, so a value written in any width that holds it
\* decodes to the value and consumes that width; buffers whose size
\* prefixes, counts and symbol lengths are written in every width validate
\* and are walked to their end by decode_value.
C8_AnyWidthAccepted ==
    /\ sz_pc = "raw" =>
          /\ sz_dec.some
          /\ sz_dec.val = sz_value
          /\ sz_dec.rdr.cursor = sz_width
    /\ (v_pc = "validated" /\ v_src = "wide" /\ v_op = "none") =>
          /\ v_res = "Ok"
          /\ decode_value(NewReader(v_buf)).st = "Ok"
          /\ decode_value(NewReader(v_buf)).rdr.cursor = Len(v_buf)

\* a map whose size prefix, count and symbol length are all eight bytes
\* wide was validated
C8_Witness ==
    /\ v_pc = "validated"
    /\ v_src = "wide"
    /\ v_op = "none"
    /\ Len(v_buf) = 27
    /\ v_res = "Ok"

----------------------------------------------------------------------------
(* Properties of the validator, under SpecVal.                             *)

\* C9: for every buffer B with validate(B) = Ok and every non-empty g,
\* validate(B ++ g) = TrailingData.
C9_GarbageIsTrailingData ==
    (v_pc = "validated" /\ v_op = "extend" /\ v_base_res = "Ok") =>
        v_res = "TrailingData"

\* the encoding of a nested map, well-formed, was extended by two bytes that
\* are themselves a well-formed value
C9_Witness ==
    /\ v_pc = "validated"
    /\ v_op = "extend"
    /\ v_src = "encoded"
    /\ v_base_res = "Ok"
    /\ Len(v_base) > 20
    /\ v_buf = v_base \o <<21, 0>>
    /\ v_res = "TrailingData"

\* C10: for every buffer B with validate(B) = Ok and every proper prefix P
\* of B, the empty one included, validate(P) fails with InputExhausted,
\* TagsInputExhausted or ListInputExhausted.
C10_PrefixIsExhausted ==
    (v_pc = "validated" /\ v_op = "prefix" /\ v_base_res = "Ok") =>
        v_res \in {"InputExhausted", "TagsInputExhausted", "ListInputExhausted"}

\* a well-formed string value was cut inside its payload
C10_Witness ==
    /\ v_pc = "validated"
    /\ v_op = "prefix"
    /\ v_base_res = "Ok"
    /\ v_base = <<19, 4, 0>>
    /\ v_buf = <<19, 4>>
    /\ v_res = "InputExhausted"

----------------------------------------------------------------------------
(* Properties of the two modes of the encoder, under SpecTwin.             *)

\* the bytes that dest held before the call that wrote t_outc and t_outu
TwinPrefix == IF t_pc = "appended" THEN TwinDest ELSE <<>>

\* C11: for the same operations and the same width, every scope closed:
\* whenever the encoder with compress_sizes = false builds (no overflow),
\* the encoder with compress_sizes = true builds as well, and its output is
\* not longer.
C11_CompressedNotLonger ==
    (t_pc \in {"built", "appended"} /\ t_outu.st = "Ok") =>
        /\ t_outc.st = "Ok"
        /\ Len(t_outc.bytes) <= Len(t_outu.bytes)

\* two scopes of eight-byte placeholders were built in both modes, and the
\* compacted output is 14 bytes shorter
C11_Witness ==
    /\ t_pc = "built"
    /\ t_c.size_max_bytes = 8
    /\ Len(t_slots) = 2
    /\ t_outu.st = "Ok"
    /\ t_outc.st = "Ok"
    /\ Len(t_outc.bytes) + 14 = Len(t_outu.bytes)

\* C12: every scope closed and no overflow latched: build() and
\* build_append() return Ok in both modes (no assertion of size() or of
\* compress fails), and the number of bytes they emit is size().
C12_SizeIsWhatBuildEmits ==
    t_pc \in {"built", "appended"} =>
        /\ ~t_c.size_overflow =>
              /\ t_outc.st = "Ok"
              /\ Len(t_outc.bytes) - Len(TwinPrefix) = size(t_c)
        /\ ~t_u.size_overflow =>
              /\ t_outu.st = "Ok"
              /\ Len(t_outu.bytes) - Len(TwinPrefix) = size(t_u)

\* a scope holding an empty scope was closed at the very end of the buffer
\* and the compacting encoder appended its two bytes to dest
C12_Witness ==
    /\ t_pc = "appended"
    /\ t_c.size_max_bytes = 4
    /\ Len(t_slots) = 2
    /\ t_slots[1].size = 1
    /\ t_slots[2].size = 0
    /\ t_slots[2].offset + 4 = Len(t_c.buffer)
    /\ t_outc.st = "Ok"
    /\ size(t_c) = 2
    /\ Len(t_outc.bytes) = Len(TwinDest) + 2
    /\ size(t_u) = 8

\* the buffer from the offset from on, with the placeholders i, i + 1, ..
\* (in the order of their offsets) each replaced by the varint of the size
\* noted for it, and the other bytes kept
RECURSIVE Compacted(_, _, _, _, _)
Compacted(buffer, slots, width, i, from) ==
    IF i > Len(slots) THEN Drop(buffer, from)
    ELSE Bind(encode_size(ToU64(slots[i].size)), LAMBDA s :
            SubSeq(buffer, from + 1, slots[i].offset)
            \o Take(s.bytes, s.length)
            \o Compacted(buffer, slots, width, i + 1, slots[i].offset + width))

\* C13: in compacting mode, every scope closed and no overflow latched:
\* the output is the working buffer with each placeholder of
\* size_max_bytes bytes replaced by the minimal varint of its scope's size,
\* which is the placeholder's first length bytes, and every other byte
\* kept in its place in the order, those after the last placeholder and a
\* buffer without placeholders included.
C13_CompactionKeepsOtherBytes ==
    (t_pc \in {"built", "appended"} /\ ~t_c.size_overflow) =>
        /\ t_outc.st = "Ok"
        /\ t_outc.bytes =
              TwinPrefix \o Compacted(t_c.buffer, t_slots, t_c.size_max_bytes, 1, 0)
        /\ \A i \in 1..Len(t_slots) :
              Bind(encode_size(ToU64(t_slots[i].size)), LAMBDA s :
                  SubSeq(t_c.buffer, t_slots[i].offset + 1,
                         t_slots[i].offset + s.length) = Take(s.bytes, s.length))
        /\ t_slots = <<>> => t_outc.bytes = TwinPrefix \o t_c.buffer

\* a placeholder of four bytes with a byte before it, a byte in its scope
\* and a byte after it was compacted to one byte
C13_Witness ==
    /\ t_pc = "built"
    /\ t_c.size_max_bytes = 4
    /\ Len(t_slots) = 1
    /\ t_slots[1].offset = 1
    /\ t_slots[1].size = 1
    /\ Len(t_c.buffer) = 7
    /\ t_outc.st = "Ok"
    /\ t_outc.bytes = <<WT_Null, 4, WT_Null, WT_Null>>

----------------------------------------------------------------------------
(* Properties of the decoder, under SpecDec.                               *)

\* the varint that starts at buffer[pos + 1], read from the bytes: whether
\* it lies within the buffer, its width and its value
SizeAt(buffer, pos) ==
    IF pos + 1 > Len(buffer) THEN [ok |-> FALSE, width |-> 0, value |-> 0]
    ELSE Bind(ClassWidth(buffer[pos + 1]), LAMBDA w :
            IF pos + w > Len(buffer) THEN [ok |-> FALSE, width |-> 0, value |-> 0]
            ELSE [ok |-> TRUE, width |-> w,
                  value |-> AsUsize(Shr2(ZeroExtend(
                                SubSeq(buffer, pos + 1, pos + w))))])

\* the header byte the reader stands on
DHeader == d_rdr.buffer[d_rdr.cursor + 1]

\* C14: on success decode_value advances the reader by 1 (header)
\* + (varint width + S when HAS_TAGS is set) + the payload (the fixed width
\* of a numeric type, or varint width + size for a size-prefixed type), in
\* that order, and the tags and the payload it returns are those ranges of
\* the source buffer.
C14_ValueLayout ==
    (d_pc = "value" /\ d_val.st = "Ok") =>
        LET buf   == d_rdr.buffer
            c     == d_rdr.cursor
            ty    == DHeader % 32
            ts    == IF DHeader >= 128 THEN SizeAt(buf, c + 1)
                     ELSE [ok |-> TRUE, width |-> 0, value |-> 0]
            p0    == c + 1 + ts.width + ts.value
            fixed == CASE ty \in {4, 8} -> 1
                       [] ty \in {5, 9} -> 2
                       [] ty \in {6, 10, 12, 14} -> 4
                       [] ty \in {7, 11, 13, 15} -> 8
                       [] OTHER -> 0
            ps    == IF ty >= 16 THEN SizeAt(buf, p0)
                     ELSE [ok |-> TRUE, width |-> 0, value |-> fixed]
            end   == p0 + ps.width + ps.value
        IN  /\ c < Len(buf)
            /\ ts.ok
            /\ p0 <= Len(buf)
            /\ ps.ok
            /\ end <= Len(buf)
            /\ d_val.rdr.buffer = buf
            /\ d_val.rdr.cursor = end
            /\ d_val.val.tags = SubSeq(buf, c + 1 + ts.width + 1, p0)
            /\ ty >= 4 => d_val.val.payload[2] = SubSeq(buf, p0 + ps.width + 1, end)

\* a String with tags, both sizes two bytes wide, was decoded by a reader
\* that stood one byte into the buffer: 1 + (2 + 4) + (2 + 2) bytes on
C14_Witness ==
    /\ d_pc = "value"
    /\ d_rdr.cursor = 1
    /\ d_rdr.buffer = <<WT_List>> \o TypedValue(WT_String, TRUE, 2)
    /\ d_val.st = "Ok"
    /\ d_val.rdr.cursor = 12
    /\ d_val.val.tags = TagBody
    /\ d_val.val.payload = <<"String", <<104, 105>>>>

\* C15: for every header byte h, decode_value fails with InvalidWireType
\* if and only if h & 0x1F is 0 or 22..31, whatever bits 5, 6 and 7 are.
C15_InvalidWireType ==
    (d_pc = "value" /\ HasSome(d_rdr)) =>
        ((d_val.st = "Err" /\ d_val.err = "InvalidWireType")
            <=> (DHeader % 32 = 0 \/ DHeader % 32 >= 22))

\* the header 0xF6, code 22 with bits 5, 6 and 7 set, was refused
C15_Witness ==
    /\ d_pc = "value"
    /\ d_rdr.cursor = 0
    /\ HasSome(d_rdr)
    /\ DHeader = 246
    /\ d_val.st = "Err"
    /\ d_val.err = "InvalidWireType"
    /\ d_val.rdr.cursor = 1

\* C16: decode_value on a header with HAS_KIND (0x40) set and a wire type
\* in 1..21 returns the error UnsupportedFeature; it does not abort.
C16_KindIsUnsupportedFeature ==
    (d_pc = "value" /\ HasSome(d_rdr)
     /\ DHeader % 32 \in 1..21 /\ (DHeader \div 64) % 2 = 1) =>
        /\ d_val.st = "Err"
        /\ d_val.err = "UnsupportedFeature"

\* C17: decode_tag_symbol on a prefix varint whose value has the low bit 0
\* returns a decode error; it does not abort.
C17_ReservedSymbolIsError ==
    (d_pc = "symbol" /\ SizeAt(d_rdr.buffer, d_rdr.cursor).ok
     /\ (DHeader \div 4) % 2 = 0) =>
        d_sym.st = "Err"

\* C18: the payload of a Symbol value (code 20) is read with the symbol
\* codec: a prefix varint (len << 1 | 1), then len bytes; the reader
\* advances by the header, the varint's width and len.
C18_SymbolPayloadIsSymbolCodec ==
    (d_pc = "value" /\ HasSome(d_rdr) /\ DHeader = WT_Symbol) =>
        LET buf    == d_rdr.buffer
            c      == d_rdr.cursor
            prefix == SizeAt(buf, c + 1)
            len    == prefix.value \div 2
            end    == c + 1 + prefix.width + len
        IN  (prefix.ok /\ prefix.value % 2 = 1 /\ end <= Len(buf)) =>
                /\ d_val.st = "Ok"
                /\ d_val.val.payload =
                      <<"Symbol", SubSeq(buf, c + 1 + prefix.width + 1, end)>>
                /\ d_val.rdr.cursor = end

\* the table of wire types: the Payload variant of a code and the width of
\* its payload, 0 for none; a size-prefixed payload has the width 9
WireTable(ty) ==
    CASE ty = 1 -> <<"Null", 0>>        [] ty = 2 -> <<"Bool", 0>>
      [] ty = 3 -> <<"Bool", 0>>        [] ty = 4 -> <<"Nat8", 1>>
      [] ty = 5 -> <<"Nat16", 2>>       [] ty = 6 -> <<"Nat32", 4>>
      [] ty = 7 -> <<"Nat64", 8>>       [] ty = 8 -> <<"Int8", 1>>
      [] ty = 9 -> <<"Int16", 2>>       [] ty = 10 -> <<"Int32", 4>>
      [] ty = 11 -> <<"Int64", 8>>      [] ty = 12 -> <<"Float32", 4>>
      [] ty = 13 -> <<"Float64", 8>>    [] ty = 14 -> <<"Decimal32", 4>>
      [] ty = 15 -> <<"Decimal64", 8>>  [] ty = 16 -> <<"Nat", 9>>
      [] ty = 17 -> <<"Int", 9>>        [] ty = 18 -> <<"Bytes", 9>>
      [] ty = 19 -> <<"String", 9>>     [] ty = 20 -> <<"Symbol", 9>>
      [] ty = 21 -> <<"List", 9>>

\* the header byte _encode_json writes first for a tree
JsonHeader(t) ==
    CASE t[1] = "Null" -> 1
      [] t[1] = "Bool" -> (IF t[2] THEN 3 ELSE 2)
      [] t[1] = "Number" -> 13
      [] t[1] = "String" -> 19
      [] t[1] = "Array" -> 21
      [] t[1] = "Object" -> 129

\* C19: decode_value maps the 5-bit code of the header to the table: 1-3
\* are Null, false, true without payload; 4-7 Nat8/16/32/64, 8-11
\* Int8/16/32/64, 12-13 Float32/64 and 14-15 Decimal32/64 with 1/2/4/8,
\* 1/2/4/8, 4/8 and 4/8 bytes; 16-21 Nat, Int, Bytes, String, Symbol, List
\* size-prefixed.  [04 FF] is Nat8(255), [03] is true, [13 08 68 69] is the
\* String "hi", and _encode_json writes the same codes.
C19_WireTypeTable ==
    /\ (d_pc = "value" /\ HasSome(d_rdr) /\ Rest(d_rdr) \in TypedInputs) =>
          d_val.st = "Ok"
    /\ (d_pc = "value" /\ d_val.st = "Ok") =>
          LET buf  == d_rdr.buffer
              c    == d_rdr.cursor
              ty   == DHeader % 32
              row  == WireTable(ty)
              p    == d_val.val.payload
              ts   == IF DHeader >= 128 THEN SizeAt(buf, c + 1)
                      ELSE [ok |-> TRUE, width |-> 0, value |-> 0]
              p0   == c + 1 + ts.width + ts.value
              used == d_val.rdr.cursor - p0
          IN  /\ ty \in 1..21
              /\ d_val.val.ty = ty
              /\ p[1] = row[1]
              /\ ty = 1 => p = <<"Null", <<>>>>
              /\ ty = 2 => p = <<"Bool", FALSE>>
              /\ ty = 3 => p = <<"Bool", TRUE>>
              /\ row[2] <= 8 => used = row[2]
              /\ row[2] \in 1..8 => p[2] = SubSeq(buf, p0 + 1, p0 + row[2])
              /\ row[2] = 9 =>
                    /\ SizeAt(buf, p0).ok
                    /\ Len(p[2]) = SizeAt(buf, p0).value
                    /\ used = SizeAt(buf, p0).width + Len(p[2])
    /\ d_pc = "value" =>
          /\ d_rdr = NewReader(<<4, 255>>) =>
                d_val.st = "Ok" /\ d_val.val.payload = <<"Nat8", <<255>>>>
          /\ d_rdr = NewReader(<<3>>) =>
                d_val.st = "Ok" /\ d_val.val.payload = <<"Bool", TRUE>>
          /\ d_rdr = NewReader(<<19, 8, 104, 105>>) =>
                d_val.st = "Ok" /\ d_val.val.payload = <<"String", <<104, 105>>>>
          /\ \A t \in JsonLeaves :
                d_rdr = NewReader(encode_json(t).bytes) =>
                    /\ DHeader = JsonHeader(t)
                    /\ d_val.st = "Ok"
                    /\ d_val.val.ty = JsonHeader(t) % 32
                    /\ d_val.val.has_tags = (t[1] = "Object")

\* [13 08 68 69] was decoded to the String "hi"
C19_Witness ==
    /\ d_pc = "value"
    /\ d_rdr = NewReader(<<19, 8, 104, 105>>)
    /\ d_val.st = "Ok"
    /\ d_val.val.ty = 19
    /\ d_val.val.payload = <<"String", <<104, 105>>>>
    /\ d_val.rdr.cursor = 4

\* C20: TagDecoder::new returns TagsInvalidLength exactly when fewer than
\* 2 * N bytes follow the count N, ListDecoder::new returns
\* ListInvalidLength exactly when fewer than N bytes follow it; otherwise
\* they return a decoder with remaining = N that stands after the count; an
\* empty slice gives N = 0 and succeeds; a count decode_size returns is
\* below 2^62, so 2 * N does not overflow 64 bits.
C20_EagerLengthCheck ==
    d_pc \in {"tags", "list"} =>
        LET slice == d_new.slice
            n     == SizeAt(slice, 0)
            per   == IF d_pc = "tags" THEN 2 ELSE 1
            name  == IF d_pc = "tags" THEN "TagsInvalidLength"
                     ELSE "ListInvalidLength"
            short == Len(slice) - n.width < per * n.value
        IN  /\ slice = <<>> =>
                  /\ d_new.st = "Ok"
                  /\ d_new.dec.remaining = 0
            /\ (slice # <<>> /\ ~n.ok) =>
                  /\ d_new.st = "Err"
                  /\ d_new.err = "InputExhausted"
            /\ (slice # <<>> /\ n.ok) =>
                  /\ decode_size(NewReader(slice)).val[8] < 64
                  /\ (d_new.st = "Err" /\ d_new.err = name) <=> short
                  /\ ~short =>
                        /\ d_new.st = "Ok"
                        /\ d_new.dec.remaining = n.value
                        /\ d_new.dec.reader.cursor = n.width
                        /\ d_new.dec.error = ""

\* a count of 2 followed by three bytes was refused by TagDecoder::new
C20_Witness ==
    /\ d_pc = "tags"
    /\ d_new.slice = <<8, 1, 1, 1>>
    /\ d_new.st = "Err"
    /\ d_new.err = "TagsInvalidLength"

----------------------------------------------------------------------------
(* Properties of the iterators, under SpecIter.                            *)

\* the last next() call made so far returned None with nothing latched
Drained ==
    /\ i_calls # <<>>
    /\ i_calls[Len(i_calls)].out = "none"
    /\ i_dec.error = ""

\* C21: check_error() on an iterator that was iterated until next()
\* returned None, with no error latched, returns Ok exactly when the inner
\* reader is empty and TagsTrailingData / ListTrailingData otherwise; with
\* no error latched and the count above zero it returns TagsInputExhausted
\* / ListInputExhausted.
C21_CheckErrorAfterExhaustion ==
    LET pre == IF i_kind = "tags" THEN "Tags" ELSE "List" IN
    /\ Drained => i_dec.remaining = 0
    /\ (i_pc = "checked" /\ Drained) =>
          /\ (i_chk = "Ok") <=> (i_dec.reader.cursor = Len(i_dec.reader.buffer))
          /\ i_chk \in { "Ok", pre \o "TrailingData" }
    /\ (i_pc = "checked" /\ i_dec.error = "" /\ i_dec.remaining > 0) =>
          i_chk = pre \o "InputExhausted"

\* two tags were yielded, a third next() returned None, one byte is left
\* in the slice and check_error() returned TagsTrailingData
C21_Witness ==
    /\ i_pc = "checked"
    /\ i_kind = "tags"
    /\ Drained
    /\ Len(i_calls) = 3
    /\ i_calls[1].out = "item" /\ i_calls[2].out = "item"
    /\ Len(i_dec.reader.buffer) - i_dec.reader.cursor = 1
    /\ i_chk = "TagsTrailingData"

\* the error of the decode_tag_symbol or decode_value call that next() makes
\* on the iterator dec, "" when they succeed
DecodeError(kind, dec) ==
    IF kind = "list"
    THEN (IF decode_value(dec.reader).st = "Err"
          THEN decode_value(dec.reader).err ELSE "")
    ELSE IF decode_tag_symbol(dec.reader).st = "Err"
    THEN decode_tag_symbol(dec.reader).err
    ELSE IF decode_tag_symbol(dec.reader).st = "Ok"
            /\ decode_value(decode_tag_symbol(dec.reader).rdr).st = "Err"
    THEN decode_value(decode_tag_symbol(dec.reader).rdr).err
    ELSE ""

LastCall(calls) == calls[Len(calls)]

\* C22: when decoding the symbol or the value fails inside next(), the call
\* returns None and leaves the count as it was, and a check_error() that
\* follows returns the error of that decode, not TagsInputExhausted /
\* ListInputExhausted or TagsTrailingData / ListTrailingData.
C22_DecodeErrorIsLatched ==
    [][ /\ (i_pc = "iter" /\ Len(i_calls') = Len(i_calls) + 1
            /\ i_dec.remaining > 0 /\ DecodeError(i_kind, i_dec) # "")
           => /\ LastCall(i_calls').out = "fail"
              /\ LastCall(i_calls').err = DecodeError(i_kind, i_dec)
              /\ i_dec'.remaining = i_dec.remaining
        /\ (i_pc = "iter" /\ i_pc' = "checked" /\ i_calls # <<>>
            /\ LastCall(i_calls).out = "fail")
           => i_chk' = LastCall(i_calls).err
      ]_vars

\* a list of two: the first next() yielded an item, the second failed on a
\* header with the wire type 0 with a byte still unread, and check_error()
\* returned InvalidWireType
C22_Witness ==
    /\ i_pc = "checked"
    /\ i_kind = "list"
    /\ Len(i_calls) = 2
    /\ i_calls[1].out = "item"
    /\ i_calls[2].out = "fail"
    /\ i_calls[2].after = 1
    /\ HasSome(i_dec.reader)
    /\ i_chk = "InvalidWireType"

\* C23: after a next() call has failed with a decode error, every later
\* next() call on that iterator returns None: no item follows a failed
\* call.
C23_NoItemAfterFailure ==
    \A k \in 1..Len(i_calls) : \A j \in 1..Len(i_calls) :
        (k < j /\ i_calls[k].out = "fail") => i_calls[j].out # "item"

\* C24: check_error() returns the error of the earliest failing next()
\* call, whatever calls followed it.
C24_FirstErrorIsKept ==
    (i_pc = "checked" /\ \E k \in 1..Len(i_calls) : i_calls[k].out = "fail")
    => LET first == CHOOSE k \in 1..Len(i_calls) :
                        /\ i_calls[k].out = "fail"
                        /\ \A j \in 1..(k - 1) : i_calls[j].out # "fail"
       IN i_chk = i_calls[first].err

\* C25: an empty list and an empty tag set are accepted as a size prefix 0
\* with no inner bytes ([0x15, 0x00], [0x81, 0x00]) and as inner bytes that
\* are only a count 0: the iterator is built, yields no item, check_error()
\* returns Ok and validate returns Ok.
C25_EmptyFormsAccepted ==
    (i_pc \notin { "off", "input" } /\ i_new.slice \in EmptyForms)
    => /\ i_buf[1] = CarrierHeader(i_kind)
       /\ i_new.st = "Ok"
       /\ i_new.dec.remaining = 0
       /\ i_pc # "panic"
       /\ \A k \in 1..Len(i_calls) : i_calls[k].out = "none"
       /\ i_pc = "checked" => i_chk = "Ok"
       /\ i_valid \in { "None", "Ok" }

\* the list [0x15, 0x04, 0x00]: size 1, count 0; next() was called,
\* check_error() and validate returned Ok
C25_Witness ==
    /\ i_buf = <<WT_List, 4, 0>>
    /\ i_new.slice = <<0>>
    /\ Len(i_calls) = 1
    /\ i_chk = "Ok"
    /\ i_valid = "Ok"

\* the tag set [0x81, 0x00]: next() was called, check_error() and validate
\* returned Ok
C25_CompactWitness ==
    /\ i_buf = <<WT_Null + WIRE_FLAG_TAGS, 0>>
    /\ i_new.slice = <<>>
    /\ Len(i_calls) = 1
    /\ i_chk = "Ok"
    /\ i_valid = "Ok"

\* the map {"a": null}
MapANull == JObject(<< <<<<97>>, JNull>> >>)

\* what a TagDecoder over the tags of the encoded {"a": null} does: it is
\* built, the first next() yields (b"a", Null), every later next() returns
\* None, and check_error() after the item returns Ok
MapANullIterates ==
    /\ i_pc # "input" => i_new.st = "Ok"
    /\ i_pc # "panic"
    /\ Len(i_calls) >= 1 =>
          /\ i_calls[1].out = "item"
          /\ i_calls[1].sym = <<97>>
          /\ i_calls[1].val.ty = WT_Null
          /\ ~i_calls[1].val.has_tags
          /\ i_calls[1].val.payload = NoPayload
    /\ \A k \in 2..Len(i_calls) : i_calls[k].out = "none"
    /\ (i_pc = "checked" /\ Len(i_calls) >= 1) => i_chk = "Ok"

\* C26 as the spec states it: encoding {"a": null} gives
\* [0x81, varint(4), varint(1), 0x03, 0x61, 0x01], the prefix of the symbol
\* "a" being the byte 0x03, and a TagDecoder over the tags yields the one
\* pair (b"a", Null) and then check_error() returns Ok.
C26_MapExample ==
    i_doc.tree = MapANull
    => /\ i_buf = <<129, encode_size(ToU64(4)).bytes[1],
                     encode_size(ToU64(1)).bytes[1], 3, 97, 1>>
       /\ MapANullIterates

\* C26, amended: encoding {"a": null} gives
\* [0x81, 0x10, 0x04, 0x0C, 0x61, 0x01]: the prefix of the symbol "a" is
\* the byte 0x0C, the varint of (1 << 1 | 1) = 3; a TagDecoder over the
\* tags bytes [0x04, 0x0C, 0x61, 0x01] yields the one pair (b"a", Null) and
\* then check_error() returns Ok.
C26_MapExampleAmended ==
    i_doc.tree = MapANull
    => /\ i_buf = <<129, 16, 4, 12, 97, 1>>
       /\ i_pc # "input" => i_new.slice = <<4, 12, 97, 1>>
       /\ MapANullIterates

\* the tags of the encoded {"a": null} yielded (b"a", Null), a second
\* next() returned None and check_error() returned Ok
C26_Witness ==
    /\ i_doc.tree = MapANull
    /\ i_kind = "tags"
    /\ Len(i_calls) = 2
    /\ i_calls[1].out = "item"
    /\ i_calls[2].out = "none"
    /\ i_chk = "Ok"

----------------------------------------------------------------------------
(* Nesting depth, under SpecJson.                                          *)

\* C27: validation enforces a maximum nesting depth: for a maximum of limit
\* containers, a buffer that nests lists or tag values deeper than limit
\* fails with DepthExceeded.
C27_DepthExceeded ==
    j_pc \in { "validated", "decoded" }
    => \A limit \in 1..(j_depth - 1) : j_valid = "DepthExceeded"

----------------------------------------------------------------------------
(* UTF-8 validation, under SpecIter.                                       *)

\* C28: validate fails with StringInvalidUtf8 when a String payload is not
\* valid UTF-8, wherever the String stands: at the root, as a list element,
\* as a tag value, or nested three containers deep; a buffer that validate
\* accepts holds only String payloads that are valid UTF-8.
C28_InvalidUtf8Rejected ==
    (i_doc.src = "string" /\ i_valid # "None")
    => /\ ~IsUtf8(i_doc.str) => i_valid = "StringInvalidUtf8"
       /\ IsUtf8(i_doc.str) => i_valid = "Ok"

\* the byte string [0xC3, 0x28] as a String inside a list inside a tag
\* value inside a list: validate returned StringInvalidUtf8
C28_Witness ==
    /\ i_doc.src = "string"
    /\ i_doc.shape = "nested"
    /\ i_doc.str = <<195, 40>>
    /\ i_valid = "StringInvalidUtf8"

----------------------------------------------------------------------------
(* Scope sizes in the compacted output, under SpecTwin.                    *)

\* where the varints of the placeholders 1 .. Len(slots) start in the
\* output out (as an offset), found by walking out: the bytes between two
\* placeholders are as many as in the working buffer, and a placeholder
\* takes the width of the varint that stands in out
RECURSIVE SlotStarts(_, _, _, _, _)
SlotStarts(out, slots, width, base, acc) ==
    IF Len(acc) = Len(slots) THEN acc
    ELSE LET i == Len(acc) + 1
             start == IF i = 1 THEN base + slots[1].offset
                      ELSE acc[i - 1] + SizeAt(out, acc[i - 1]).width
                           + (slots[i].offset - slots[i - 1].offset - width)
         IN SlotStarts(out, slots, width, base, Append(acc, start))

\* the offset in out of the byte at the offset p of the working buffer, p
\* not inside a placeholder and at or after the end of the placeholder i
OutPos(out, slots, width, starts, i, p) ==
    LET j == CHOOSE k \in i..Len(slots) :
                /\ slots[k].offset + width <= p
                /\ \A m \in (k + 1)..Len(slots) : slots[m].offset + width > p
    IN starts[j] + SizeAt(out, starts[j]).width + (p - slots[j].offset - width)

\* C29: in compacting mode with no overflow latched, for every
\* begin_size / end_size pair at any depth: the varint that build() emits
\* for the scope decodes to the number of output bytes between the end of
\* that varint and the output position of the end_size call.
C29_SizeCoversScope ==
    (t_pc \in {"built", "appended"} /\ ~t_c.size_overflow) =>
        /\ t_outc.st = "Ok"
        /\ LET out == t_outc.bytes
               width == t_c.size_max_bytes
               starts == SlotStarts(out, t_slots, width, Len(TwinPrefix), <<>>)
           IN \A i \in 1..Len(t_slots) :
                /\ SizeAt(out, starts[i]).ok
                /\ SizeAt(out, starts[i]).value =
                      OutPos(out, t_slots, width, starts, i, t_slots[i].end)
                      - (starts[i] + SizeAt(out, starts[i]).width)
                /\ OutPos(out, t_slots, width, starts, i, t_slots[i].end) <= Len(out)

\* a scope of eight-byte placeholders that holds a scope with one byte in
\* it was built to [0x08, 0x04, 0x01]
C29_Witness ==
    /\ t_pc = "built"
    /\ t_c.size_max_bytes = 8
    /\ Len(t_slots) = 2
    /\ t_slots[1].offset = 0 /\ t_slots[1].end = 17
    /\ t_slots[2].offset = 8 /\ t_slots[2].end = 17
    /\ t_outc.st = "Ok"
    /\ t_outc.bytes = <<8, 4, WT_Null>>

----------------------------------------------------------------------------
(* The effect of end_size, under SpecEnc.                                  *)

\* C30: an end_size call that pops the scope {offset, S} writes the lowest
\* size_max_bytes bytes of varint(S) at buffer[offset .. offset +
\* size_max_bytes], leaves the length of the buffer and every other byte as
\* they were, adds S + length (compress_sizes) or S + size_max_bytes
\* (otherwise) to the running size of the enclosing scope, and leaves the
\* other scopes as they were.
C30_EndSizeFrame ==
    [][ (e_ops' = e_ops + 1 /\ ~e_enc'.panic
         /\ Len(e_enc'.sizers) = Len(e_enc.sizers) - 1)
        => LET n == Len(e_enc.sizers)
               S == e_enc.sizers[n].size
               offset == e_enc.sizers[n].offset
               width == e_enc.size_max_bytes
               varint == encode_size(ToU64(S))
           IN /\ Len(e_enc'.buffer) = Len(e_enc.buffer)
              /\ \A k \in 1..Len(e_enc.buffer) :
                    (k <= offset \/ k > offset + width)
                    => e_enc'.buffer[k] = e_enc.buffer[k]
              /\ SubSeq(e_enc'.buffer, offset + 1, offset + width)
                    = Take(varint.bytes, width)
              /\ e_enc'.sizers[n - 1].size =
                    e_enc.sizers[n - 1].size + S
                    + (IF e_enc.compress_sizes THEN varint.length ELSE width)
              /\ e_enc'.sizers[n - 1].offset = e_enc.sizers[n - 1].offset
              /\ \A k \in 1..(n - 2) : e_enc'.sizers[k] = e_enc.sizers[k]
      ]_vars

\* without compaction and with two-byte placeholders, a scope holding one
\* byte was closed inside another scope, which was credited with 1 + 2
C30_Witness ==
    /\ e_pc = "open"
    /\ ~e_enc.panic
    /\ ~e_enc.compress_sizes
    /\ e_enc.size_max_bytes = 2
    /\ e_closed = <<1>>
    /\ Len(e_enc.sizers) = 2
    /\ e_enc.sizers[2].size = 3
    /\ e_enc.buffer = <<0, 0, 4, 0, WT_Null>>

----------------------------------------------------------------------------
(* The overflow flag against the sizes of the closed scopes, under         *)
(* SpecOverflow.                                                           *)

\* a size of S bytes needs a varint wider than a placeholder of w bytes:
\* S >= 64 for w = 1, S >= 16384 for w = 2, S >= 2^30 for w = 4
TooWide(w, S) == w # 8 /\ S >= 2^(8 * w - 2)

\* the flag is set exactly when a closed scope was too wide
FlagIsExact ==
    e_enc.size_overflow <=>
        \E i \in 1..Len(e_closed) : TooWide(e_enc.size_max_bytes, e_closed[i])

\* the varint of a size is wider than w bytes exactly from 2^(8w - 2) on
WidthLimits ==
    (sz_pc = "encoded" /\ ~sz_enc.panic) =>
        /\ sz_enc.length <= 8
        /\ \A w \in {1, 2, 4} :
             (sz_enc.length > w) <=> (BitLen(sz_value) > 8 * w - 2)

\* C31: size_overflow is set exactly when some end_size has closed a scope
\* whose running size S needs a varint wider than size_max_bytes, that is
\* S >= 64 for W = 1, S >= 16384 for W = 2, S >= 2^30 for W = 4; with
\* W = 8 it is never set; no operation ever clears it.
C31_OverflowExact ==
    /\ [](FlagIsExact /\ WidthLimits)
    /\ [][e_enc.size_overflow => e_enc'.size_overflow]_vars

\* a scope of 2^14 bytes was closed on a two-byte placeholder and the flag
\* is set, one more byte than the scope the encoder started with
C31_Witness ==
    /\ e_pc = "open"
    /\ e_enc.size_max_bytes = 2
    /\ e_closed = <<16384>>
    /\ e_enc.size_overflow
    /\ ~e_enc.panic

\* a scope of 2^14 - 1 bytes was closed on a two-byte placeholder, a scope
\* of 64 bytes on a one-byte placeholder
C31_FitsWitness ==
    /\ e_enc.size_max_bytes = 2
    /\ e_closed = <<16383>>
    /\ ~e_enc.size_overflow

----------------------------------------------------------------------------
(* The stack of scopes, under SpecEnc.                                     *)

\* C32: the sizers stack holds exactly 1 + (begin_size calls - end_size
\* calls) entries and is never empty; end_size with no scope open, and
\* size(), build() and build_append() with a scope still open, fail their
\* assertion and return nothing.
C32_SizersStack ==
    /\ ~e_enc.panic =>
          /\ Len(e_enc.sizers) = 1 + e_begun - Len(e_closed)
          /\ Len(e_enc.sizers) >= 1
    /\ (e_pc = "open" /\ ~e_enc.panic /\ Len(e_enc.sizers) = 1) =>
          end_size(e_enc).panic
    \* size(), build() and build_append() leave the encoder as it is
    /\ (e_out.st # "None" /\ ~e_enc.panic) =>
          (e_out.st = "Panic" <=> Len(e_enc.sizers) > 1)
    /\ ~e_enc.panic =>
          /\ build(e_enc).st = "Panic" <=> Len(e_enc.sizers) > 1
          /\ build_append(e_enc, e_dest).st = "Panic" <=> Len(e_enc.sizers) > 1

\* build() failed its assertion: two scopes were begun and one was ended
C32_Witness ==
    /\ e_pc = "built"
    /\ e_out.st = "Panic"
    /\ e_begun = 2
    /\ Len(e_closed) = 1
    /\ Len(e_enc.sizers) = 2

\* end_size failed its assertion after a scope was begun and ended
C32_EndWitness ==
    /\ e_enc.panic
    /\ e_begun = 1
    /\ Len(e_closed) = 1

\* size() failed its assertion with a scope open
C32_SizeWitness ==
    /\ e_pc = "open"
    /\ e_out.st = "Panic"
    /\ e_begun = 1
    /\ e_closed = <<>>
    /\ e_enc.buffer = <<0, WT_Null>>

----------------------------------------------------------------------------
(* decode_value and the content of tags and lists, under SpecIter.         *)

\* the tags or the List payload of the value the buffer holds
CarriedSlice ==
    IF i_kind = "tags" THEN IValue.val.tags ELSE IValue.val.payload[2]

\* C33: decode_value does not parse tag bytes or List payload bytes: for a
\* value whose declared tags size and payload size fit in the buffer it
\* returns Ok whatever those bytes contain; malformed content is reported
\* only by TagDecoder / ListDecoder (new, next, check_error) or by validate.
C33_ContentNotParsed ==
    i_kind \in { "tags", "list" } =>
        /\ IValue.st = "Ok"
        /\ ~HasSome(IValue.rdr)
        /\ \A w \in Widths :
              i_buf = Sized(CarrierHeader(i_kind), w, Drop(i_buf, 1 + w)) =>
                  CarriedSlice = Drop(i_buf, 1 + w)
        /\ i_pc # "input" => i_new.slice = CarriedSlice

\* a list of one element whose header has the wire type 0: decode_value
\* returned Ok for the list, ListDecoder::new accepted the count, next()
\* failed and validate reports InvalidWireType
C33_Witness ==
    /\ i_kind = "list"
    /\ i_buf = <<WT_List, 8, 4, 0>>
    /\ IValue.st = "Ok"
    /\ IValue.val.payload = <<"List", <<4, 0>>>>
    /\ i_new.st = "Ok"
    /\ Len(i_calls) = 1
    /\ i_calls[1].out = "fail"
    /\ i_chk # "None"
    /\ i_valid \notin { "None", "Ok" }

\* tags that are one byte announcing an eight-byte count: decode_value
\* returned Ok and TagDecoder::new refused the slice
C33_TagsWitness ==
    /\ i_kind = "tags"
    /\ i_buf = <<WT_Null + WIRE_FLAG_TAGS, 4, 19>>
    /\ IValue.st = "Ok"
    /\ IValue.val.tags = <<19>>
    /\ i_pc = "refused"
    /\ i_new.st # "Ok"

----------------------------------------------------------------------------
(* What validate reports for a count that is too large, under SpecIter.    *)

\* the calls so far are those of a for loop over the iterator: items, then
\* the first None
LoopedToNone ==
    /\ i_calls # <<>>
    /\ LastCall(i_calls).out \in { "none", "fail" }
    /\ \A k \in 1..(Len(i_calls) - 1) : i_calls[k].out = "item"

ExhaustedErrors == { "ListInputExhausted", "TagsInputExhausted" }

\* the items yielded so far that _validate refuses
FailedItems ==
    { k \in 1..Len(i_calls) :
        i_calls[k].out = "item" /\ _validate(i_calls[k].val) # "Ok" }

\* C34: validate never returns ListInputExhausted or TagsInputExhausted: it
\* iterates a decoder until next() returns None before it calls
\* check_error(), so a declared count that exceeds the items present comes
\* out as the error of the failed decode or as ListInvalidLength /
\* TagsInvalidLength.
C34_NoExhaustedFromValidate ==
    /\ i_valid \notin ExhaustedErrors
    /\ (i_pc = "checked" /\ LoopedToNone) =>
          /\ i_chk \notin ExhaustedErrors
          /\ LastCall(i_calls).out = "fail" => i_chk = LastCall(i_calls).err
          /\ i_valid # "None" =>
                IF FailedItems = {}
                THEN i_chk # "Ok" => i_valid = i_chk
                ELSE \E k \in FailedItems :
                        /\ \A j \in FailedItems : k <= j
                        /\ i_valid = _validate(i_calls[k].val)
    /\ (i_pc = "refused" /\ i_valid # "None") => i_valid = i_new.err

\* a list that declares three elements and holds Nat8(7) and Null: new
\* accepts the count (three bytes follow it), two next() calls yield, the
\* third fails, and check_error() and validate return InputExhausted
C34_Witness ==
    /\ i_kind = "list"
    /\ i_buf = Sized(WT_List, 1, <<12, WT_Nat8, 7, WT_Null>>)
    /\ i_pc = "checked"
    /\ Len(i_calls) = 3
    /\ LoopedToNone
    /\ i_calls[3].out = "fail"
    /\ i_calls[3].before = 1
    /\ i_chk = "InputExhausted"
    /\ i_valid = "InputExhausted"

\* a list that declares three elements and holds two bytes: new refuses it
\* and validate returns ListInvalidLength
C34_LengthWitness ==
    /\ i_kind = "list"
    /\ i_buf = Sized(WT_List, 1, <<12, WT_Null, WT_Null>>)
    /\ i_pc = "refused"
    /\ i_valid = "ListInvalidLength"

----------------------------------------------------------------------------
(* The measures that bound validate, under SpecIter.                       *)

\* the next() of the iterator of the harness
NextOf(kind, dec) ==
    IF kind = "tags" THEN TagDecoderNext(dec) ELSE ListDecoderNext(dec)

\* the bytes of a value that _validate hands to an iterator: its tags and,
\* of a List, its payload
InnerLen(value) ==
    Len(value.tags)
    + (IF value.payload[1] = "List" THEN Len(value.payload[2]) ELSE 0)

Larger(a, b) == IF a >= b THEN a ELSE b

\* how deep _validate recurses into a value: 1 for the call itself, and
\* the deepest of the calls for the items of its tags and of its list
RECURSIVE ValueDepth(_), ItemsDepth(_, _)
ValueDepth(value) ==
    1 + Larger(
        IF value.has_tags /\ TagDecoderNew(value.tags).st = "Ok"
        THEN ItemsDepth("tags", TagDecoderNew(value.tags).dec) ELSE 0,
        IF value.payload[1] = "List" /\ ListDecoderNew(value.payload[2]).st = "Ok"
        THEN ItemsDepth("list", ListDecoderNew(value.payload[2]).dec) ELSE 0)
ItemsDepth(kind, dec) ==
    Bind(NextOf(kind, dec), LAMBDA n :
        IF n.some
        THEN Larger(ValueDepth(n.val), ItemsDepth(kind, n.dec))
        ELSE 0)

\* the next() calls so far that yielded an item
Yielded == Cardinality({ k \in 1..Len(i_calls) : i_calls[k].out = "item" })

\* C35: validate terminates on every finite input: an iterator yields at
\* most its declared count of items, every next() that yields advances
\* the inner reader, by more than the bytes of the item that _validate
\* recurses into, and the tags and payload of a value are shorter than the
\* value, so the depth of the recursion is at most the length of the
\* buffer.
C35_ValidateIsBounded ==
    /\ i_pc \in { "iter", "checked" } =>
          /\ Yielded + i_dec.remaining = i_new.dec.remaining
          /\ Yielded <= i_new.dec.remaining
          /\ NextOf(i_kind, i_dec).some =>
                /\ NextOf(i_kind, i_dec).dec.remaining = i_dec.remaining - 1
                /\ NextOf(i_kind, i_dec).dec.reader.cursor - i_dec.reader.cursor
                      > InnerLen(NextOf(i_kind, i_dec).val)
    /\ IValue.st = "Ok" =>
          /\ InnerLen(IValue.val) < Len(i_buf)
          /\ ValueDepth(IValue.val) <= Len(i_buf)
    /\ i_valid # "None" => i_valid = validate(i_buf)

\* a list whose element has a tag whose value is a list of one string:
\* validate returned Ok after four nested calls, on fourteen bytes
C35_Witness ==
    /\ i_doc.shape = "nested"
    /\ i_doc.str = <<97>>
    /\ Len(i_buf) = 14
    /\ ValueDepth(IValue.val) = 4
    /\ i_pc = "checked"
    /\ Yielded = 1
    /\ i_valid = "Ok"

----------------------------------------------------------------------------
(* build_append and the vector it is given, under SpecTwin.                *)

\* dest after build_append was called n times on the encoder e, starting
\* from TwinDest: each call appended what build() returns
AppendedTimes(e, n) ==
    IF build(e).st = "Ok"
    THEN TwinDest \o build(e).bytes \o (IF n = 2 THEN build(e).bytes ELSE <<>>)
    ELSE TwinDest

\* C36: build_append(dest) only appends: what dest held before remains as
\* an unchanged prefix, the encoder is not modified, so two consecutive
\* calls append the same bytes, those that build() returns, and when it
\* returns SizeOverflow dest is not modified at all.
C36_BuildAppendOnlyAppends ==
    /\ t_pc = "appended" =>
          /\ t_outc.st = build(t_c).st /\ t_outc.bytes = AppendedTimes(t_c, 1)
          /\ t_outu.st = build(t_u).st /\ t_outu.bytes = AppendedTimes(t_u, 1)
    /\ t_pc = "appended twice" =>
          /\ t_outc.st = build(t_c).st /\ t_outc.bytes = AppendedTimes(t_c, 2)
          /\ t_outu.st = build(t_u).st /\ t_outu.bytes = AppendedTimes(t_u, 2)
    /\ t_pc \in { "appended", "appended twice" } =>
          /\ t_outc.st \in { "Ok", "SizeOverflow" }
          /\ Take(t_outc.bytes, Len(TwinDest)) = TwinDest
          /\ Take(t_outu.bytes, Len(TwinDest)) = TwinDest
          /\ t_outc.st = "SizeOverflow" <=> t_c.size_overflow
          /\ t_outc.st = "SizeOverflow" => t_outc.bytes = TwinDest
          /\ t_outu.st = "SizeOverflow" => t_outu.bytes = TwinDest

\* two calls on a compacting encoder with four-byte placeholders that holds
\* one scope of one byte: dest holds its two bytes and twice the output
C36_Witness ==
    /\ t_pc = "appended twice"
    /\ t_c.size_max_bytes = 4
    /\ t_c.buffer = <<4, 0, 0, 0, WT_Null>>
    /\ t_outc.st = "Ok"
    /\ t_outc.bytes = <<255, 0, 4, WT_Null, 4, WT_Null>>
    /\ t_outu.bytes = <<255, 0, 4, 0, 0, 0, WT_Null, 4, 0, 0, 0, WT_Null>>

\* two calls after a scope of 64 bytes overflowed a one-byte placeholder:
\* both returned SizeOverflow and dest holds what it held
C36_OverflowWitness ==
    /\ t_pc = "appended twice"
    /\ t_c.size_max_bytes = 1
    /\ t_c.size_overflow
    /\ t_outc = [st |-> "SizeOverflow", bytes |-> TwinDest]
    /\ t_outu = [st |-> "SizeOverflow", bytes |-> TwinDest]

----------------------------------------------------------------------------
(* The frame of the reader's methods, under SpecReader.                    *)

\* fewer than n bytes remain after the cursor; n < 0 is a usize of the top
\* half of the range, more than any buffer holds
FewerThan(r, n) == n < 0 \/ Remaining(r) < n

\* what every call keeps: the cursor within the buffer, peek and peek_n
\* the reader as it was, a next_n that returns a slice the n bytes from the
\* old cursor and the cursor moved by n
ReaderMoves ==
    /\ r_rdr.cursor <= Len(r_rdr.buffer)
    /\ r_rdr.buffer = r_old.buffer
    /\ r_call.op \in { "peek", "peek_n" } => r_rdr = r_old
    /\ (r_call.op \in { "next_n", "next_bytes" } /\ r_res.out = "some") =>
          /\ r_rdr.cursor = r_old.cursor + r_call.n
          /\ Len(r_res.val) = r_call.n
          /\ r_res.val = SubSeq(r_old.buffer, r_old.cursor + 1,
                                r_old.cursor + r_call.n)
    /\ (r_call.op \in { "next_n", "next_bytes" } /\ r_res.out # "some") =>
          r_rdr = r_old

\* C37: a Reader's cursor never exceeds the buffer length; next_n(n) and
\* the typed little-endian reads return None and leave the cursor
\* unchanged when fewer than n bytes remain; peek and peek_n never move the
\* cursor; a successful next_n(n) advances it by exactly n and returns the
\* n bytes that started at the old cursor.
C37_ReaderFrame ==
    /\ ReaderMoves
    /\ (r_call.op \in { "next_n", "next_bytes" } /\ FewerThan(r_old, r_call.n)) =>
          r_res.out = "none"

\* the same for the sizes whose sum with the cursor fits a usize
ReaderFrameBelowTop ==
    /\ ReaderMoves
    /\ (r_call.op \in { "next_n", "next_bytes" } /\ FewerThan(r_old, r_call.n)
        /\ ~AddOverflows(r_old.cursor, r_call.n)) =>
          r_res.out = "none"

----------------------------------------------------------------------------
(* The log of placeholder offsets, under SpecTwin.                         *)

\* the varints of a log, in order: ok when the bytes are varints and
\* nothing else
RECURSIVE LoggedDeltas(_, _)
LoggedDeltas(offsets, acc) ==
    IF ~HasSome(offsets) THEN [ok |-> TRUE, vals |-> acc]
    ELSE IF ~decode_size(offsets).some THEN [ok |-> FALSE, vals |-> acc]
    ELSE LoggedDeltas(decode_size(offsets).rdr,
                      Append(acc, AsUsize(decode_size(offsets).val)))

\* C38: in compacting mode size_offsets holds exactly one varint per
\* begin_size call, in call order, each the distance of its placeholder
\* from the one before (from 0 for the first); the distances sum to
\* last_size_offset; every one after the first is at least size_max_bytes,
\* so delta - size_max_bytes does not underflow and every next_n, peek and
\* unwrap of the compaction succeeds.
C38_OffsetsLog ==
    LET log == LoggedDeltas(NewReader(t_c.size_offsets), <<>>)
        n   == Len(t_slots)
    IN  (t_pc # "off" /\ ~t_c.panic) =>
            /\ log.ok
            /\ Len(log.vals) = n
            /\ \A i \in 1..n :
                  log.vals[i] = t_slots[i].offset
                                - (IF i = 1 THEN 0 ELSE t_slots[i - 1].offset)
            /\ t_c.last_size_offset = (IF n = 0 THEN 0 ELSE t_slots[n].offset)
            /\ \A i \in 2..n : log.vals[i] >= t_c.size_max_bytes
            /\ t_u.size_offsets = <<>>
            /\ (Len(t_c.sizers) = 1 /\ ~t_c.size_overflow) =>
                  ~CompressLoop(t_c, NewReader(t_c.buffer),
                                NewReader(t_c.size_offsets), TRUE, <<>>).panic
            /\ t_pc \in { "built", "appended", "appended twice" } =>
                  t_outc.st # "Panic"

\* a two-byte placeholder at 0 and, 64 bytes into its scope, a second one
\* at 66, whose distance takes a two-byte varint: the log is 0, 66 and
\* build() returned Ok
C38_Witness ==
    /\ t_pc = "built"
    /\ t_c.size_max_bytes = 2
    /\ Len(t_slots) = 2
    /\ t_slots[1].offset = 0 /\ t_slots[2].offset = 66
    /\ t_c.size_offsets = <<0, 9, 1>>
    /\ t_c.last_size_offset = 66
    /\ t_outc.st = "Ok"

\* a placeholder right behind another: the distance is size_max_bytes and
\* the compaction copies nothing between the two
C38_AdjacentWitness ==
    /\ t_pc = "built"
    /\ t_c.size_max_bytes = 4
    /\ Len(t_slots) = 2
    /\ t_slots[1].offset = 0 /\ t_slots[2].offset = 4
    /\ t_c.size_offsets = <<0, 16>>
    /\ t_outc.st = "Ok"

====
